---------------------------- MODULE Spec2Model ----------------------------
(***************************************************************************)
(* Sistema experto de diagnostico de PC: motor/logica.py (base de          *)
(* conocimiento, motor de reglas SI..ENTONCES, sugerencia de sintoma       *)
(* unico, modulo ML simulado) y motor/logica_pesos.py (motor de pesos).    *)
(*                                                                         *)
(* Strings that the code takes apart (rule conditions, fact ids) are       *)
(* sequences of tokens, "NOT:" being one token, so that                    *)
(* cond.replace("NOT:", "") and cond.startswith("NOT:") are computed.      *)
(* Texts that the code builds (f-strings) are sequences of fragments and   *)
(* concatenation is \o.                                                    *)
(***************************************************************************)
EXTENDS Integers, Sequences, FiniteSets, TLC

VARIABLES
    estado,                \* "importando" | "listo" | "SystemExit"
    fuente,                \* the document base_conocimiento.json holds
    error_carga,           \* what cargar_base_conocimiento reported
    BASE_CONOCIMIENTO,     \* the module-level instance (logica.py:94)
    HECHOS_POR_ID,         \* the module-level index (logica.py:96)
    conocimiento_usuario,  \* the document conocimiento_usuario.json holds
    llamada,               \* the most recent engine call: engine and input
    resultado,             \* what that call returned (or raised)
    traza,                 \* the locals of that call when it ended
    anterior,              \* history: the call to logica.py before that one
    lanzador               \* main.py: where main() is, and its locals

vars == <<estado, fuente, error_carga, BASE_CONOCIMIENTO, HECHOS_POR_ID,
          conocimiento_usuario, llamada, resultado, traza, anterior,
          lanzador>>

----------------------------------------------------------------------------
(* Bounds of the model                                                     *)

MaxReglas == 2
MaxCondiciones == 2
MaxEntrada == 2
MaxUsuario == 2

SeqsHasta(S, n) == UNION {[1..k -> S] : k \in 0..n}

Rango(s) == {s[i] : i \in DOMAIN s}

----------------------------------------------------------------------------
(* Strings: condition literals and fact ids                                *)

NOT == "NOT:"

\* cond.replace("NOT:", ""): every occurrence goes, wherever it stands
replace_NOT(cond) == SelectSeq(cond, LAMBDA t : t # NOT)

\* cond.startswith("NOT:")
startswith_NOT(cond) == Len(cond) > 0 /\ cond[1] = NOT

\* The ids _llamar_modulo_ml looks for
sistema_lento == <<"sistema_lento">>
no_conecta_wifi == <<"no_conecta_wifi">>
wifi_conectado_sin_internet == <<"wifi_conectado_sin_internet">>
programas_cierran == <<"programas_cierran">>
mensajes_error_frecuentes == <<"mensajes_error_frecuentes">>
pantalla_azul == <<"pantalla_azul">>
imagen_congelada_o_artefactos == <<"imagen_congelada_o_artefactos">>
ruidos_hdd == <<"ruidos_hdd">>
sobrecalentamiento == <<"sobrecalentamiento">>
publicidad_excesiva == <<"publicidad_excesiva">>

\* An id generated by guardar_nuevo_dato: "user_" and a timestamp
IdUsuario(n) == <<"user_", ToString(n)>>

----------------------------------------------------------------------------
(* The knowledge base document: Hecho, Regla, BaseConocimiento             *)

Hecho(id, pregunta, categoria) ==
    [id |-> id, pregunta |-> pregunta, categoria |-> categoria]

Regla(diagnostico, condiciones) ==
    [diagnostico |-> diagnostico, condiciones |-> condiciones]

BaseConocimiento(tipo, hechos, reglas, dsu) ==
    [tipo |-> tipo, hechos |-> hechos, reglas |-> reglas,
     diagnosticos_sintoma_unico |-> dsu]

\* No instance yet (before the import has run, or after it failed)
SinBase == BaseConocimiento("ninguna", <<>>, <<>>, <<>>)

\* The keys of diagnosticos_sintoma_unico, in the document's order
ClavesDSU(dsu) == {dsu[i].id : i \in DOMAIN dsu}

\* dsu[id] for a key that is there
ValorDSU(dsu, id) == dsu[CHOOSE i \in DOMAIN dsu : dsu[i].id = id].texto

\* First index of a sequence that satisfies P, 0 when none does
Primero(s, P(_)) ==
    IF \E i \in DOMAIN s : P(s[i])
    THEN CHOOSE i \in DOMAIN s : P(s[i]) /\ \A j \in 1..(i-1) : ~P(s[j])
    ELSE 0

SinError == [tipo |-> "ninguno", regla |-> 0, id |-> <<>>]

\* validar_referencias_cruzadas looking at the keys of
\* diagnosticos_sintoma_unico before the rules
validar_referencias_cruzadas_claves_primero(base) ==
    LET hechos_ids == {base.hechos[i].id : i \in DOMAIN base.hechos}
        Mala(cond) == replace_NOT(cond) \notin hechos_ids
        ReglaMala(regla) == Primero(regla.condiciones, Mala) # 0
        i == Primero(base.reglas, ReglaMala)
        k == Primero(base.diagnosticos_sintoma_unico,
                     LAMBDA par : par.id \notin hechos_ids)
    IN  IF k # 0
        THEN [tipo |-> "ValueError", regla |-> 0,
              id |-> base.diagnosticos_sintoma_unico[k].id]
        ELSE IF i # 0
        THEN LET conds == base.reglas[i].condiciones
             IN  [tipo |-> "ValueError", regla |-> i,
                  id |-> replace_NOT(conds[Primero(conds, Mala)])]
        ELSE SinError

\* BaseConocimiento.validar_referencias_cruzadas: the first violation, rules in
\* order and conditions in order, then the keys of diagnosticos_sintoma_unico
validar_referencias_cruzadas(base) ==
    LET hechos_ids == {base.hechos[i].id : i \in DOMAIN base.hechos}
        Mala(cond) == replace_NOT(cond) \notin hechos_ids
        ReglaMala(regla) == Primero(regla.condiciones, Mala) # 0
        i == Primero(base.reglas, ReglaMala)
        k == Primero(base.diagnosticos_sintoma_unico,
                     LAMBDA par : par.id \notin hechos_ids)
    IN  IF i # 0
        THEN LET conds == base.reglas[i].condiciones
             IN  [tipo |-> "ValueError", regla |-> i,
                  id |-> replace_NOT(conds[Primero(conds, Mala)])]
        ELSE IF k # 0
        THEN [tipo |-> "ValueError", regla |-> 0,
              id |-> base.diagnosticos_sintoma_unico[k].id]
        ELSE SinError

\* cargar_base_conocimiento returning the instance it built when the
\* validation of the references fails
cargar_base_conocimiento_sin_validar(doc) ==
    IF doc.tipo = "ausente"
    THEN [base |-> SinBase,
          error |-> [tipo |-> "FileNotFoundError", regla |-> 0, id |-> <<>>]]
    ELSE IF doc.tipo = "ilegible"
    THEN [base |-> SinBase,
          error |-> [tipo |-> "Exception", regla |-> 0, id |-> <<>>]]
    ELSE IF doc.tipo = "json_invalido"
    THEN [base |-> SinBase,
          error |-> [tipo |-> "JSONDecodeError", regla |-> 0, id |-> <<>>]]
    ELSE IF doc.tipo = "esquema_invalido"
    THEN [base |-> SinBase,
          error |-> [tipo |-> "ValidationError", regla |-> 0, id |-> <<>>]]
    ELSE [base |-> doc, error |-> SinError]

\* cargar_base_conocimiento: the instance, or the error that ends the process.
\* A file that cannot be opened or read for another reason than its absence
\* ("ilegible") is caught by the last except clause.
cargar_base_conocimiento(doc) ==
    IF doc.tipo = "ausente"
    THEN [base |-> SinBase,
          error |-> [tipo |-> "FileNotFoundError", regla |-> 0, id |-> <<>>]]
    ELSE IF doc.tipo = "ilegible"
    THEN [base |-> SinBase,
          error |-> [tipo |-> "Exception", regla |-> 0, id |-> <<>>]]
    ELSE IF doc.tipo = "json_invalido"
    THEN [base |-> SinBase,
          error |-> [tipo |-> "JSONDecodeError", regla |-> 0, id |-> <<>>]]
    ELSE IF doc.tipo = "esquema_invalido"
    THEN [base |-> SinBase,
          error |-> [tipo |-> "ValidationError", regla |-> 0, id |-> <<>>]]
    ELSE LET e == validar_referencias_cruzadas(doc)
         IN  IF e.tipo # "ninguno"
             THEN [base |-> SinBase, error |-> e]
             ELSE [base |-> doc, error |-> SinError]

\* {hecho.id: hecho for hecho in BASE_CONOCIMIENTO.hechos}: the last one wins
IndiceHechos(hechos) ==
    [id \in {hechos[i].id : i \in DOMAIN hechos} |->
        hechos[CHOOSE i \in DOMAIN hechos :
                  /\ hechos[i].id = id
                  /\ \A j \in DOMAIN hechos : hechos[j].id = id => j <= i]]

----------------------------------------------------------------------------
(* The user store document and what the engine derives from it             *)

\* One element of the stored document.  forma "dict" is a JSON object with the
\* keys in claves; forma "otro" is anything dato["id"] fails on (a number, a
\* string, a key of a top-level object).  id_es_str: the id is a JSON string.
DatoUsuario(forma, claves, id, id_es_str, categoria, sintoma, diagnostico) ==
    [forma |-> forma, claves |-> claves, id |-> id, id_es_str |-> id_es_str,
     categoria |-> categoria, sintoma |-> sintoma, diagnostico |-> diagnostico]

\* tipo: "ausente" (no file), "json_invalido", "lista", "objeto" (iterating it
\* yields its keys) or "escalar" (a number, true, false or null)
Documento(tipo, elementos) == [tipo |-> tipo, elementos |-> elementos]

\* cargar_datos_usuario keeping in memory what the call before it had read
cargar_datos_usuario_en_cache(doc) ==
    IF llamada.motor = "logica" /\ resultado.tipo = "dict"
    THEN traza.datos_usuario
    ELSE IF doc.tipo \in {"ausente", "json_invalido"}
    THEN Documento("lista", <<>>)
    ELSE doc

\* cargar_datos_usuario answering with the document of the call before, the
\* file being read only for the next call
cargar_datos_usuario_atrasado(doc) ==
    LET leido == IF llamada.motor = "logica" THEN llamada.almacen ELSE doc
    IN  IF leido.tipo \in {"ausente", "json_invalido"}
        THEN Documento("lista", <<>>)
        ELSE leido

\* cargar_datos_usuario: [] when the file is missing or does not parse, and
\* whatever json.load returns otherwise
cargar_datos_usuario(doc) ==
    IF doc.tipo \in {"ausente", "json_invalido"}
    THEN Documento("lista", <<>>)
    ELSE doc

\* `for dato in datos_usuario` raises TypeError outside the try
NoIterable(datos_usuario) == datos_usuario.tipo = "escalar"

\* The body of the try in convertir_datos_usuario_a_hechos succeeds
HechoConvertible(dato) ==
    /\ dato.forma = "dict"
    /\ {"id", "sintoma", "categoria"} \subseteq dato.claves
    /\ dato.id_es_str

MARCA_USUARIO == "[Usuario] "

RECURSIVE convertir_desde(_, _)
convertir_desde(elementos, k) ==
    IF k > Len(elementos) THEN <<>>
    ELSE LET dato == elementos[k]
         IN  (IF HechoConvertible(dato)
              THEN <<Hecho(dato.id, <<MARCA_USUARIO>> \o dato.sintoma,
                           dato.categoria)>>
              ELSE <<>>) \o convertir_desde(elementos, k + 1)

\* convertir_datos_usuario_a_hechos (for an iterable document)
convertir_datos_usuario_a_hechos(datos_usuario) ==
    convertir_desde(datos_usuario.elementos, 1)

\* The body of the try in crear_reglas_usuario succeeds
ReglaCreable(dato) ==
    /\ dato.forma = "dict"
    /\ {"diagnostico", "id"} \subseteq dato.claves
    /\ dato.id_es_str

SUFIJO_USUARIO == " [Sugerido por usuario - temporal]"

RECURSIVE crear_desde(_, _)
crear_desde(elementos, k) ==
    IF k > Len(elementos) THEN <<>>
    ELSE LET dato == elementos[k]
         IN  (IF ReglaCreable(dato)
              THEN <<Regla(dato.diagnostico \o <<SUFIJO_USUARIO>>, <<dato.id>>)>>
              ELSE <<>>) \o crear_desde(elementos, k + 1)

\* crear_reglas_usuario with the diagnostico of the record left as it is
crear_reglas_usuario_sin_sufijo(datos_usuario) ==
    LET reglas == crear_desde(datos_usuario.elementos, 1)
    IN  [i \in DOMAIN reglas |->
            Regla(SelectSeq(reglas[i].diagnostico, LAMBDA t : t # SUFIJO_USUARIO),
                  reglas[i].condiciones)]

\* crear_reglas_usuario (for an iterable document)
crear_reglas_usuario(datos_usuario) ==
    crear_desde(datos_usuario.elementos, 1)

\* hechos_por_id_completo = HECHOS_POR_ID.copy(); then one assignment per user
\* fact, in order: a later fact replaces an earlier one with the same id
hechos_por_id_completo(indice, hechos_usuario) ==
    LET ids_usuario == {hechos_usuario[i].id : i \in DOMAIN hechos_usuario}
    IN  [id \in (DOMAIN indice) \cup ids_usuario |->
            IF id \in ids_usuario
            THEN IndiceHechos(hechos_usuario)[id]
            ELSE indice[id]]

----------------------------------------------------------------------------
(* _llamar_modulo_ml: the simulated ML module                              *)

SUG_DEFECTO == "investigar posibles conflictos de software generales o drivers recientes."
SUG_LENTO_RED == "revisar si hay software consumiendo mucho ancho de banda ..."
SUG_LENTO_SOFTWARE == "buscar actualizaciones del sistema operativo y de las aplicaciones que fallan ..."
SUG_IMAGEN_COMBINADA == "realizar una instalacion limpia de los drivers de la tarjeta grafica ..."
SUG_LENTO == "optimizar el sistema operativo ..."
SUG_RED == "revisar la configuracion de red (IP/DNS) ..."
SUG_IMAGEN == "actualizar los drivers de la tarjeta grafica ..."

PREAMBULO_ML == "Diagnostico: Las reglas exactas no coinciden. Un analisis avanzado (ML) sugiere "
CIERRE_ML == " Considere proporcionar mas detalles en la seccion 'Otro Problema'. (Modulo ML simulado)"

\* The chain with its last two branches exchanged
sugerencia_ml_imagen_antes_que_red(set_hechos_activos) ==
    LET S == set_hechos_activos
    IN  IF /\ sistema_lento \in S
           /\ (no_conecta_wifi \in S \/ wifi_conectado_sin_internet \in S)
        THEN SUG_LENTO_RED
        ELSE IF /\ sistema_lento \in S
                /\ \/ programas_cierran \in S
                   \/ mensajes_error_frecuentes \in S
                   \/ pantalla_azul \in S
        THEN SUG_LENTO_SOFTWARE
        ELSE IF /\ imagen_congelada_o_artefactos \in S
                /\ (sistema_lento \in S \/ programas_cierran \in S)
        THEN SUG_IMAGEN_COMBINADA
        ELSE IF /\ sistema_lento \in S
                /\ {ruidos_hdd, sobrecalentamiento, programas_cierran,
                    publicidad_excesiva, no_conecta_wifi,
                    wifi_conectado_sin_internet, pantalla_azul,
                    mensajes_error_frecuentes,
                    imagen_congelada_o_artefactos} \cap S = {}
        THEN SUG_LENTO
        ELSE IF /\ imagen_congelada_o_artefactos \in S
                /\ {sistema_lento, programas_cierran} \cap S = {}
        THEN SUG_IMAGEN
        ELSE IF /\ (no_conecta_wifi \in S \/ wifi_conectado_sin_internet \in S)
                /\ {sistema_lento} \cap S = {}
        THEN SUG_RED
        ELSE SUG_DEFECTO

\* The if/elif chain of lines 193-209 over set_hechos_activos
sugerencia_ml(set_hechos_activos) ==
    LET S == set_hechos_activos
    IN  IF /\ sistema_lento \in S
           /\ (no_conecta_wifi \in S \/ wifi_conectado_sin_internet \in S)
        THEN SUG_LENTO_RED
        ELSE IF /\ sistema_lento \in S
                /\ \/ programas_cierran \in S
                   \/ mensajes_error_frecuentes \in S
                   \/ pantalla_azul \in S
        THEN SUG_LENTO_SOFTWARE
        ELSE IF /\ imagen_congelada_o_artefactos \in S
                /\ (sistema_lento \in S \/ programas_cierran \in S)
        THEN SUG_IMAGEN_COMBINADA
        ELSE IF /\ sistema_lento \in S
                /\ {ruidos_hdd, sobrecalentamiento, programas_cierran,
                    publicidad_excesiva, no_conecta_wifi,
                    wifi_conectado_sin_internet, pantalla_azul,
                    mensajes_error_frecuentes,
                    imagen_congelada_o_artefactos} \cap S = {}
        THEN SUG_LENTO
        ELSE IF /\ (no_conecta_wifi \in S \/ wifi_conectado_sin_internet \in S)
                /\ {sistema_lento} \cap S = {}
        THEN SUG_RED
        ELSE IF /\ imagen_congelada_o_artefactos \in S
                /\ {sistema_lento, programas_cierran} \cap S = {}
        THEN SUG_IMAGEN
        ELSE SUG_DEFECTO

\* " ".join(pregunta of every id of the list that the merged index knows):
\* computed at line 190 from the list, in its order, and used nowhere
RECURSIVE sintomas_texto(_, _, _)
sintomas_texto(hechos_activos_ids, indice, k) ==
    IF k > Len(hechos_activos_ids) THEN <<>>
    ELSE (IF hechos_activos_ids[k] \in DOMAIN indice
          THEN <<indice[hechos_activos_ids[k]].pregunta>>
          ELSE <<>>) \o sintomas_texto(hechos_activos_ids, indice, k + 1)

\* _llamar_modulo_ml looking only at the first id of the list
llamar_modulo_ml_primer_id(hechos_activos_ids, indice, doc) ==
    LET datos_usuario == cargar_datos_usuario(doc)
    IN  IF NoIterable(datos_usuario)
        THEN [tipo |-> "excepcion", texto |-> <<"TypeError">>]
        ELSE [tipo |-> "str",
              texto |-> <<PREAMBULO_ML,
                          sugerencia_ml({hechos_activos_ids[1]}),
                          CIERRE_ML>>]

\* _llamar_modulo_ml: reads the user store again, then composes the text
llamar_modulo_ml(hechos_activos_ids, indice, doc) ==
    LET datos_usuario == cargar_datos_usuario(doc)
    IN  IF NoIterable(datos_usuario)
        THEN [tipo |-> "excepcion", texto |-> <<"TypeError">>]
        ELSE [tipo |-> "str",
              texto |-> <<PREAMBULO_ML,
                          sugerencia_ml(Rango(hechos_activos_ids)),
                          CIERRE_ML>>]

----------------------------------------------------------------------------
(* motor_de_inferencia (logica.py): the rule scan                          *)

\* evaluar_condiciones with the negated test made on the literal itself and
\* not on its base id
RECURSIVE evaluar_condiciones_sin_base(_, _, _, _)
evaluar_condiciones_sin_base(condiciones, k, set_hechos_activos, positivas) ==
    IF k > Len(condiciones)
    THEN [condiciones_cumplidas |-> TRUE, positivas |-> positivas]
    ELSE LET cond == condiciones[k]
         IN  IF startswith_NOT(cond)
             THEN IF cond \in set_hechos_activos
                  THEN [condiciones_cumplidas |-> FALSE, positivas |-> positivas]
                  ELSE evaluar_condiciones_sin_base(condiciones, k + 1,
                                                    set_hechos_activos, positivas)
             ELSE IF cond \notin set_hechos_activos
                  THEN [condiciones_cumplidas |-> FALSE, positivas |-> positivas]
                  ELSE evaluar_condiciones_sin_base(condiciones, k + 1,
                                                    set_hechos_activos, positivas + 1)

\* evaluar_condiciones with a negated literal passed over without the test
\* of lines 266-268
RECURSIVE evaluar_condiciones_negadas_ignoradas(_, _, _, _)
evaluar_condiciones_negadas_ignoradas(condiciones, k, set_hechos_activos, positivas) ==
    IF k > Len(condiciones)
    THEN [condiciones_cumplidas |-> TRUE, positivas |-> positivas]
    ELSE LET cond == condiciones[k]
         IN  IF startswith_NOT(cond)
             THEN evaluar_condiciones_negadas_ignoradas(condiciones, k + 1,
                                                        set_hechos_activos, positivas)
             ELSE IF cond \notin set_hechos_activos
                  THEN [condiciones_cumplidas |-> FALSE, positivas |-> positivas]
                  ELSE evaluar_condiciones_negadas_ignoradas(condiciones, k + 1,
                                                             set_hechos_activos, positivas + 1)

\* Lines 261-274 for one rule, from condition k on, with the count so far:
\* the loop stops at the first condition that fails
RECURSIVE evaluar_condiciones(_, _, _, _)
evaluar_condiciones(condiciones, k, set_hechos_activos, positivas) ==
    IF k > Len(condiciones)
    THEN [condiciones_cumplidas |-> TRUE, positivas |-> positivas]
    ELSE LET cond == condiciones[k]
             cond_base == replace_NOT(cond)
         IN  IF startswith_NOT(cond)
             THEN IF cond_base \in set_hechos_activos
                  THEN [condiciones_cumplidas |-> FALSE, positivas |-> positivas]
                  ELSE evaluar_condiciones(condiciones, k + 1,
                                           set_hechos_activos, positivas)
             ELSE IF cond \notin set_hechos_activos
                  THEN [condiciones_cumplidas |-> FALSE, positivas |-> positivas]
                  ELSE evaluar_condiciones(condiciones, k + 1,
                                           set_hechos_activos, positivas + 1)

\* reemplaza_mejor with the tie on specificity going to the later rule
reemplaza_mejor_ultima_gana(positivas, especificidad, max_positivas, max_especificidad) ==
    \/ positivas > max_positivas
    \/ positivas = max_positivas /\ especificidad >= max_especificidad

\* Lines 277-290: whether the rule that matched replaces the best so far
reemplaza_mejor(positivas, especificidad, max_positivas, max_especificidad) ==
    \/ positivas > max_positivas
    \/ positivas = max_positivas /\ especificidad > max_especificidad

\* The locals of the scan before the first rule (lines 246-250); the best rule
\* is kept as its position in todas_las_reglas, 0 for None
BusquedaInicial ==
    [mejor_regla_encontrada |-> 0,
     max_condiciones_positivas_coincidentes |-> -1,
     max_especificidad_regla |-> -1,
     cumplidas |-> <<>>]

\* Lines 255-290: the scan of todas_las_reglas from rule k on
RECURSIVE buscar_mejor_regla(_, _, _, _)
buscar_mejor_regla(todas_las_reglas, k, set_hechos_activos, b) ==
    IF k > Len(todas_las_reglas) THEN b
    ELSE LET regla == todas_las_reglas[k]
             e == evaluar_condiciones(regla.condiciones, 1,
                                      set_hechos_activos, 0)
             especificidad_actual == Len(regla.condiciones)
             toma == /\ e.condiciones_cumplidas
                     /\ reemplaza_mejor(e.positivas, especificidad_actual,
                            b.max_condiciones_positivas_coincidentes,
                            b.max_especificidad_regla)
             b2 == [mejor_regla_encontrada |->
                        IF toma THEN k ELSE b.mejor_regla_encontrada,
                    max_condiciones_positivas_coincidentes |->
                        IF toma /\ e.positivas >
                               b.max_condiciones_positivas_coincidentes
                        THEN e.positivas
                        ELSE b.max_condiciones_positivas_coincidentes,
                    max_especificidad_regla |->
                        IF toma THEN especificidad_actual
                        ELSE b.max_especificidad_regla,
                    cumplidas |-> Append(b.cumplidas, e.condiciones_cumplidas)]
         IN  buscar_mejor_regla(todas_las_reglas, k + 1, set_hechos_activos, b2)

\* Line 298: the base ids of the negated conditions of a rule
condiciones_negadas_regla(regla) ==
    {replace_NOT(regla.condiciones[i]) :
        i \in {j \in DOMAIN regla.condiciones :
                  startswith_NOT(regla.condiciones[j])}}

\* regla_aceptada with the count compared by >= and not by ==
regla_aceptada_mayor_o_igual(todas_las_reglas, b, set_hechos_activos) ==
    /\ b.mejor_regla_encontrada # 0
    /\ b.max_condiciones_positivas_coincidentes >=
         Cardinality(set_hechos_activos \
            condiciones_negadas_regla(todas_las_reglas[b.mejor_regla_encontrada]))

\* Lines 296-302: the acceptance of the best rule found
regla_aceptada(todas_las_reglas, b, set_hechos_activos) ==
    /\ b.mejor_regla_encontrada # 0
    /\ b.max_condiciones_positivas_coincidentes =
         Cardinality(set_hechos_activos \
            condiciones_negadas_regla(todas_las_reglas[b.mejor_regla_encontrada]))

----------------------------------------------------------------------------
(* motor_de_inferencia (logica.py): the whole call                         *)

MSG_SIN_SINTOMAS == "Por favor, selecciona al menos un sintoma."

\* The returned dict, or the exception that left the call
Devuelve(diagnostico, hechos_activos_ids) ==
    [tipo |-> "dict", diagnostico |-> diagnostico,
     sintomas_pasados_ids |-> hechos_activos_ids]

Lanza(excepcion) ==
    [tipo |-> "excepcion", diagnostico |-> <<excepcion>>,
     sintomas_pasados_ids |-> <<>>]

\* The locals of the call when it ends.  rama is the branch that set
\* resultado_final: "vacia" (239), "regla" (304), "sintoma_unico" (311),
\* "ml" (315, 320) or "excepcion"
Traza(rama, datos_usuario, indice, todas_las_reglas, b) ==
    [rama |-> rama, datos_usuario |-> datos_usuario,
     hechos_por_id_completo |-> indice,
     todas_las_reglas |-> todas_las_reglas,
     cumplidas |-> b.cumplidas,
     mejor_regla_encontrada |-> b.mejor_regla_encontrada,
     max_condiciones_positivas_coincidentes |->
         b.max_condiciones_positivas_coincidentes,
     max_especificidad_regla |-> b.max_especificidad_regla]

SinTraza == Traza("ninguna", Documento("lista", <<>>), <<>>, <<>>, BusquedaInicial)

\* sin_regla_aceptada with len() taken of the list and not of the set
sin_regla_aceptada_len_lista(hechos_activos_ids, set_hechos_activos, base, indice, doc) ==
    LET dsu == base.diagnosticos_sintoma_unico
        sintoma_unico_id == CHOOSE id \in set_hechos_activos : TRUE
        ml == llamar_modulo_ml(hechos_activos_ids, indice, doc)
    IN  IF /\ Len(hechos_activos_ids) = 1
           /\ Len(dsu) > 0
           /\ sintoma_unico_id \in ClavesDSU(dsu)
        THEN [rama |-> "sintoma_unico",
              resultado |-> Devuelve(ValorDSU(dsu, sintoma_unico_id),
                                     hechos_activos_ids)]
        ELSE IF ml.tipo = "excepcion"
        THEN [rama |-> "excepcion", resultado |-> Lanza("TypeError")]
        ELSE [rama |-> "ml",
              resultado |-> Devuelve(ml.texto, hechos_activos_ids)]

\* sin_regla_aceptada with the suggestion of the first id looked up whatever
\* the number of active ids
sin_regla_aceptada_sin_contar(hechos_activos_ids, set_hechos_activos, base, indice, doc) ==
    LET dsu == base.diagnosticos_sintoma_unico
        sintoma_unico_id == hechos_activos_ids[1]
        ml == llamar_modulo_ml(hechos_activos_ids, indice, doc)
    IN  IF /\ Len(dsu) > 0
           /\ sintoma_unico_id \in ClavesDSU(dsu)
        THEN [rama |-> "sintoma_unico",
              resultado |-> Devuelve(ValorDSU(dsu, sintoma_unico_id),
                                     hechos_activos_ids)]
        ELSE IF ml.tipo = "excepcion"
        THEN [rama |-> "excepcion", resultado |-> Lanza("TypeError")]
        ELSE [rama |-> "ml",
              resultado |-> Devuelve(ml.texto, hechos_activos_ids)]

\* Lines 306-320: no rule was accepted
sin_regla_aceptada(hechos_activos_ids, set_hechos_activos, base, indice, doc) ==
    LET dsu == base.diagnosticos_sintoma_unico
        sintoma_unico_id == CHOOSE id \in set_hechos_activos : TRUE
        ml == llamar_modulo_ml(hechos_activos_ids, indice, doc)
    IN  IF /\ Cardinality(set_hechos_activos) = 1
           /\ Len(dsu) > 0
           /\ sintoma_unico_id \in ClavesDSU(dsu)
        THEN [rama |-> "sintoma_unico",
              resultado |-> Devuelve(ValorDSU(dsu, sintoma_unico_id),
                                     hechos_activos_ids)]
        ELSE IF ml.tipo = "excepcion"
        THEN [rama |-> "excepcion", resultado |-> Lanza("TypeError")]
        ELSE [rama |-> "ml",
              resultado |-> Devuelve(ml.texto, hechos_activos_ids)]

\* motor_de_inferencia(hechos_activos_ids) with the module's globals and the
\* user store as they are when it is called
motor_de_inferencia(hechos_activos_ids, base, indice, doc) ==
    LET set_hechos_activos == Rango(hechos_activos_ids)
        datos_usuario == cargar_datos_usuario(doc)
    IN  IF NoIterable(datos_usuario)
        THEN [resultado |-> Lanza("TypeError"),
              traza |-> Traza("excepcion", datos_usuario, indice, <<>>,
                              BusquedaInicial)]
        ELSE
        LET hechos_usuario == convertir_datos_usuario_a_hechos(datos_usuario)
            completo == hechos_por_id_completo(indice, hechos_usuario)
        IN  IF set_hechos_activos = {}
            THEN [resultado |-> Devuelve(<<MSG_SIN_SINTOMAS>>, hechos_activos_ids),
                  traza |-> Traza("vacia", datos_usuario, completo, <<>>,
                                  BusquedaInicial)]
            ELSE
            LET reglas_usuario == crear_reglas_usuario(datos_usuario)
                todas_las_reglas == base.reglas \o reglas_usuario
                b == buscar_mejor_regla(todas_las_reglas, 1, set_hechos_activos,
                                        BusquedaInicial)
            IN  IF regla_aceptada(todas_las_reglas, b, set_hechos_activos)
                THEN [resultado |->
                        Devuelve(todas_las_reglas[b.mejor_regla_encontrada].diagnostico,
                                 hechos_activos_ids),
                      traza |-> Traza("regla", datos_usuario, completo,
                                      todas_las_reglas, b)]
                ELSE LET r == sin_regla_aceptada(hechos_activos_ids,
                                  set_hechos_activos, base, indice, doc)
                     IN  [resultado |-> r.resultado,
                          traza |-> Traza(r.rama, datos_usuario, completo,
                                          todas_las_reglas, b)]

----------------------------------------------------------------------------
(* motor_de_inferencia (logica_reglas.py): the cascade of six rules        *)

CONCLUSION_RAM_VIDEO == "Diagnostico: Falla critica de hardware detectada (RAM o Video). ..."
CONCLUSION_FUENTE == "Diagnostico: Falla de alimentacion. La PC no recibe energia. ..."
CONCLUSION_VIDEO == "Diagnostico: Problema de senal de video. ..."
CONCLUSION_DISCO == "Diagnostico: ALERTA! Falla mecanica del disco duro. ..."
CONCLUSION_SO == "Diagnostico: Falla grave del sistema operativo. ..."
CONCLUSION_PERIFERICO == "Diagnostico: Falla de un periferico. ..."
CONCLUSION_DEFECTO == "Diagnostico: No se pudo determinar la falla con los sintomas proporcionados. ..."

\* The cascade with the fifth rule tested before the fourth
motor_de_inferencia_reglas_so_antes(sintomas) ==
    IF "pc_no_enciende" \in sintomas /\ "hace_pitidos_al_arrancar" \in sintomas
    THEN [rama |-> "regla 1", texto |-> CONCLUSION_RAM_VIDEO]
    ELSE IF "pc_no_enciende" \in sintomas /\ "hace_pitidos_al_arrancar" \notin sintomas
    THEN [rama |-> "regla 2", texto |-> CONCLUSION_FUENTE]
    ELSE IF "pc_no_enciende" \notin sintomas /\ "pantalla_sin_video" \in sintomas
    THEN [rama |-> "regla 3", texto |-> CONCLUSION_VIDEO]
    ELSE IF "sistema_operativo_lento" \in sintomas /\ "mensajes_de_error_os" \in sintomas
    THEN [rama |-> "regla 5", texto |-> CONCLUSION_SO]
    ELSE IF "sistema_operativo_lento" \in sintomas /\ "ruidos_extranos_hdd" \in sintomas
    THEN [rama |-> "regla 4", texto |-> CONCLUSION_DISCO]
    ELSE IF /\ "periferico_no_funciona" \in sintomas
            /\ "pc_no_enciende" \notin sintomas
            /\ "pantalla_sin_video" \notin sintomas
            /\ "sistema_operativo_lento" \notin sintomas
    THEN [rama |-> "regla 6", texto |-> CONCLUSION_PERIFERICO]
    ELSE [rama |-> "defecto", texto |-> CONCLUSION_DEFECTO]

\* motor_de_inferencia(sintomas) of logica_reglas.py; sintomas is the set of
\* the flags that are True
motor_de_inferencia_reglas(sintomas) ==
    IF "pc_no_enciende" \in sintomas /\ "hace_pitidos_al_arrancar" \in sintomas
    THEN [rama |-> "regla 1", texto |-> CONCLUSION_RAM_VIDEO]
    ELSE IF "pc_no_enciende" \in sintomas /\ "hace_pitidos_al_arrancar" \notin sintomas
    THEN [rama |-> "regla 2", texto |-> CONCLUSION_FUENTE]
    ELSE IF "pc_no_enciende" \notin sintomas /\ "pantalla_sin_video" \in sintomas
    THEN [rama |-> "regla 3", texto |-> CONCLUSION_VIDEO]
    ELSE IF "sistema_operativo_lento" \in sintomas /\ "ruidos_extranos_hdd" \in sintomas
    THEN [rama |-> "regla 4", texto |-> CONCLUSION_DISCO]
    ELSE IF "sistema_operativo_lento" \in sintomas /\ "mensajes_de_error_os" \in sintomas
    THEN [rama |-> "regla 5", texto |-> CONCLUSION_SO]
    ELSE IF /\ "periferico_no_funciona" \in sintomas
            /\ "pc_no_enciende" \notin sintomas
            /\ "pantalla_sin_video" \notin sintomas
            /\ "sistema_operativo_lento" \notin sintomas
    THEN [rama |-> "regla 6", texto |-> CONCLUSION_PERIFERICO]
    ELSE [rama |-> "defecto", texto |-> CONCLUSION_DEFECTO]

----------------------------------------------------------------------------
(* The objects of the module after a call.  Python names are bound to      *)
(* objects: an assignment through a name changes the object it is bound to *)

\* objetos_tras_inferencia with the local name bound to HECHOS_POR_ID itself
\* (no .copy())
objetos_tras_inferencia_sin_copia(base, indice, doc) ==
    LET datos_usuario == cargar_datos_usuario(doc)
    IN  IF NoIterable(datos_usuario)
        THEN [BASE_CONOCIMIENTO |-> base, HECHOS_POR_ID |-> indice]
        ELSE
        LET hechos_usuario == convertir_datos_usuario_a_hechos(datos_usuario)
            reglas_usuario == crear_reglas_usuario(datos_usuario)
            antes == [HECHOS_POR_ID |-> indice,
                      reglas |-> base.reglas,
                      todas_las_reglas |-> base.reglas \o reglas_usuario]
            despues == [antes EXCEPT !.HECHOS_POR_ID =
                            hechos_por_id_completo(@, hechos_usuario)]
        IN  [BASE_CONOCIMIENTO |-> [base EXCEPT !.reglas = despues.reglas],
             HECHOS_POR_ID |-> despues.HECHOS_POR_ID]

\* motor_de_inferencia and _llamar_modulo_ml: HECHOS_POR_ID.copy() (lines 233,
\* 186) is a new dict, and the assignments of lines 234-235 and 187-188 go to
\* it; list(BASE_CONOCIMIENTO.reglas) + reglas_usuario (line 243) is a new
\* list.  The TypeError of line 117 comes before any of them.
objetos_tras_inferencia(base, indice, doc) ==
    LET datos_usuario == cargar_datos_usuario(doc)
    IN  IF NoIterable(datos_usuario)
        THEN [BASE_CONOCIMIENTO |-> base, HECHOS_POR_ID |-> indice]
        ELSE
        LET hechos_usuario == convertir_datos_usuario_a_hechos(datos_usuario)
            reglas_usuario == crear_reglas_usuario(datos_usuario)
            antes == [HECHOS_POR_ID |-> indice,
                      copia |-> indice,
                      reglas |-> base.reglas,
                      todas_las_reglas |-> base.reglas \o reglas_usuario]
            despues == [antes EXCEPT !.copia =
                            hechos_por_id_completo(@, hechos_usuario)]
        IN  [BASE_CONOCIMIENTO |-> [base EXCEPT !.reglas = despues.reglas],
             HECHOS_POR_ID |-> despues.HECHOS_POR_ID]

----------------------------------------------------------------------------
(* get_hechos_por_categoria, get_categorias                                *)

\* get_hechos_por_categoria: the facts of the base of that category, then the
\* facts of the user store of that category (two new lists, concatenated)
get_hechos_por_categoria(categoria, base, doc) ==
    LET hechos_base == SelectSeq(base.hechos, LAMBDA h : h.categoria = categoria)
        datos_usuario == cargar_datos_usuario(doc)
    IN  IF NoIterable(datos_usuario)
        THEN Lanza("TypeError")
        ELSE LET hechos_usuario == convertir_datos_usuario_a_hechos(datos_usuario)
                 hechos_usuario_categoria ==
                     SelectSeq(hechos_usuario, LAMBDA h : h.categoria = categoria)
             IN  [tipo |-> "list",
                  diagnostico |-> hechos_base \o hechos_usuario_categoria,
                  sintomas_pasados_ids |-> <<>>]

\* The category names in the order sorted() puts them
CATEGORIAS == <<"hardware", "red", "software">>

\* get_categorias: sorted(list(set(categoria of every fact of the base)))
get_categorias(base) ==
    [tipo |-> "list",
     diagnostico |->
         SelectSeq(CATEGORIAS,
                   LAMBDA c : \E i \in DOMAIN base.hechos :
                                  base.hechos[i].categoria = c),
     sintomas_pasados_ids |-> <<>>]

----------------------------------------------------------------------------
(* motor_de_inferencia (logica_pesos.py)                                   *)

\* SintomasPC: the seven flags, in the order of declaration
FLAGS ==
    <<"pc_no_enciende", "pantalla_sin_video", "sistema_operativo_lento",
      "ruidos_extranos_hdd", "periferico_no_funciona",
      "hace_pitidos_al_arrancar", "mensajes_de_error_os">>

Diagnostico(nombre, pesos, descripcion) ==
    [nombre |-> nombre, pesos |-> pesos, descripcion |-> descripcion]

\* DIAGNOSTICOS; pesos is the dict as a set of <<flag, weight>> pairs
DIAGNOSTICOS ==
    << Diagnostico("Falla Critica de Hardware (RAM/Video)",
                   {<<"pc_no_enciende", 10>>, <<"hace_pitidos_al_arrancar", 20>>},
                   "Diagnostico: Falla critica de hardware detectada (RAM o Video). ..."),
       Diagnostico("Falla de Fuente de Poder",
                   {<<"pc_no_enciende", 15>>, <<"periferico_no_funciona", 2>>},
                   "Diagnostico: Falla de alimentacion. ..."),
       Diagnostico("Falla de Disco Duro",
                   {<<"sistema_operativo_lento", 8>>, <<"ruidos_extranos_hdd", 25>>,
                    <<"mensajes_de_error_os", 5>>},
                   "Diagnostico: ALERTA! Falla mecanica del disco duro. ..."),
       Diagnostico("Problema del Sistema Operativo",
                   {<<"sistema_operativo_lento", 10>>, <<"mensajes_de_error_os", 15>>},
                   "Diagnostico: Falla grave del sistema operativo (drivers, virus, etc.). ..."),
       Diagnostico("Problema de Conexion de Video",
                   {<<"pantalla_sin_video", 15>>},
                   "Diagnostico: Problema de senal de video. ..."),
       Diagnostico("Falla de Periferico",
                   {<<"periferico_no_funciona", 15>>},
                   "Diagnostico: Falla de un periferico. ...") >>

UMBRAL_MINIMO == 10

MSG_PESOS_SIN_SINTOMAS ==
    "Por favor, selecciona al menos un sintoma para poder realizar el diagnostico."
MSG_PESOS_INSUFICIENTE ==
    "Diagnostico: La informacion es insuficiente para un diagnostico preciso. ..."
MSG_PESOS_INESPERADO == "Error inesperado en el motor de inferencia."

RECURSIVE SumaPesos(_)
SumaPesos(pares) ==
    IF pares = {} THEN 0
    ELSE LET par == CHOOSE x \in pares : TRUE
         IN  par[2] + SumaPesos(pares \ {par})

\* Lines 78-81: puntajes[nombre] after the two loops
puntaje(diagnostico, sintomas_activos) ==
    SumaPesos({par \in diagnostico.pesos : par[1] \in sintomas_activos})

\* diagnostico_mas_probable with the last of the keys of greatest value
diagnostico_mas_probable_ultimo(sintomas_activos) ==
    CHOOSE i \in DOMAIN DIAGNOSTICOS :
        /\ \A j \in DOMAIN DIAGNOSTICOS :
              puntaje(DIAGNOSTICOS[j], sintomas_activos)
                  <= puntaje(DIAGNOSTICOS[i], sintomas_activos)
        /\ \A j \in (i + 1)..Len(DIAGNOSTICOS) :
              puntaje(DIAGNOSTICOS[j], sintomas_activos)
                  < puntaje(DIAGNOSTICOS[i], sintomas_activos)

\* max(puntajes, key=puntajes.get): the first key, in insertion order, whose
\* value no other exceeds
diagnostico_mas_probable(sintomas_activos) ==
    CHOOSE i \in DOMAIN DIAGNOSTICOS :
        /\ \A j \in DOMAIN DIAGNOSTICOS :
              puntaje(DIAGNOSTICOS[j], sintomas_activos)
                  <= puntaje(DIAGNOSTICOS[i], sintomas_activos)
        /\ \A j \in 1..(i - 1) :
              puntaje(DIAGNOSTICOS[j], sintomas_activos)
                  < puntaje(DIAGNOSTICOS[i], sintomas_activos)

\* motor_de_inferencia of logica_pesos.py refusing a maximum equal to the
\* threshold
motor_de_inferencia_pesos_umbral_estricto(sintomas_activos) ==
    IF sintomas_activos = {}
    THEN [rama |-> "vacia", texto |-> MSG_PESOS_SIN_SINTOMAS, puntaje_maximo |-> 0]
    ELSE LET i == diagnostico_mas_probable(sintomas_activos)
             puntaje_maximo == puntaje(DIAGNOSTICOS[i], sintomas_activos)
         IN  IF puntaje_maximo <= UMBRAL_MINIMO
             THEN [rama |-> "insuficiente", texto |-> MSG_PESOS_INSUFICIENTE,
                   puntaje_maximo |-> puntaje_maximo]
             ELSE [rama |-> "diagnostico", texto |-> DIAGNOSTICOS[i].descripcion,
                   puntaje_maximo |-> puntaje_maximo]

\* motor_de_inferencia_pesos without the test of lines 74-75
motor_de_inferencia_pesos_sin_atajo(sintomas_activos) ==
    LET i == diagnostico_mas_probable(sintomas_activos)
        puntaje_maximo == puntaje(DIAGNOSTICOS[i], sintomas_activos)
        k == Primero(DIAGNOSTICOS,
                     LAMBDA d : d.nombre = DIAGNOSTICOS[i].nombre)
    IN  IF puntaje_maximo < UMBRAL_MINIMO
        THEN [rama |-> "insuficiente", texto |-> MSG_PESOS_INSUFICIENTE,
              puntaje_maximo |-> puntaje_maximo]
        ELSE IF k # 0
        THEN [rama |-> "diagnostico", texto |-> DIAGNOSTICOS[k].descripcion,
              puntaje_maximo |-> puntaje_maximo]
        ELSE [rama |-> "inesperado", texto |-> MSG_PESOS_INESPERADO,
              puntaje_maximo |-> puntaje_maximo]

\* motor_de_inferencia(sintomas) of logica_pesos.py; sintomas_activos is the
\* set of the flags that are True
motor_de_inferencia_pesos(sintomas_activos) ==
    IF sintomas_activos = {}
    THEN [rama |-> "vacia", texto |-> MSG_PESOS_SIN_SINTOMAS, puntaje_maximo |-> 0]
    ELSE LET i == diagnostico_mas_probable(sintomas_activos)
             puntaje_maximo == puntaje(DIAGNOSTICOS[i], sintomas_activos)
             k == Primero(DIAGNOSTICOS,
                          LAMBDA d : d.nombre = DIAGNOSTICOS[i].nombre)
         IN  IF puntaje_maximo < UMBRAL_MINIMO
             THEN [rama |-> "insuficiente", texto |-> MSG_PESOS_INSUFICIENTE,
                   puntaje_maximo |-> puntaje_maximo]
             ELSE IF k # 0
             THEN [rama |-> "diagnostico", texto |-> DIAGNOSTICOS[k].descripcion,
                   puntaje_maximo |-> puntaje_maximo]
             ELSE [rama |-> "inesperado", texto |-> MSG_PESOS_INESPERADO,
                   puntaje_maximo |-> puntaje_maximo]

----------------------------------------------------------------------------
(* The documents and inputs the specifications draw from                   *)

HechosCompletos ==
    << Hecho(sistema_lento, <<"El sistema esta lento">>, "software"),
       Hecho(no_conecta_wifi, <<"No conecta al wifi">>, "red"),
       Hecho(imagen_congelada_o_artefactos, <<"Imagen congelada">>, "hardware") >>

HechosSinWifi == SelectSeq(HechosCompletos, LAMBDA h : h.id # no_conecta_wifi)

\* The literals of the rules: two facts, each positive or negated
IdsReglas == {sistema_lento, no_conecta_wifi}
Literales == IdsReglas \cup {<<NOT>> \o id : id \in IdsReglas}
ListasCondiciones == SeqsHasta(Literales, MaxCondiciones)

\* Rule i of a document concludes a text of its own
TextoRegla(i) == <<"diagnostico de la regla ", ToString(i)>>

ListasReglas ==
    UNION {{[i \in 1..k |-> Regla(TextoRegla(i), c[i])] :
                c \in [1..k -> ListasCondiciones]} : k \in 0..MaxReglas}

Sugerencia(id, texto) == [id |-> id, texto |-> texto]

SUG_UNICA_LENTO == Sugerencia(sistema_lento, <<"sugerencia para sistema_lento">>)
SUG_UNICA_WIFI == Sugerencia(no_conecta_wifi, <<"sugerencia para no_conecta_wifi">>)

Sugerencias == {<<>>, <<SUG_UNICA_LENTO, SUG_UNICA_WIFI>>}

FuentesIlegibles ==
    {BaseConocimiento(t, <<>>, <<>>, <<>>) :
        t \in {"ausente", "ilegible", "json_invalido", "esquema_invalido"}}

Fuentes ==
    FuentesIlegibles \cup
    {BaseConocimiento("ok", h, r, d) :
        h \in {HechosCompletos, HechosSinWifi}, r \in ListasReglas,
        d \in Sugerencias}

\* A record as guardar_nuevo_dato writes it
DatoGuardado(id, diagnostico) ==
    DatoUsuario("dict", {"id", "fecha", "categoria", "sintoma", "diagnostico",
                         "temporal", "timestamp"},
                id, TRUE, "hardware", <<"sintoma del usuario">>, diagnostico)

DIAG_USUARIO == <<"diagnostico del usuario">>

SinAlmacen == Documento("ausente", <<>>)

\* Stores that hold what the data model says: nothing, or a list of records
AlmacenesLista ==
    {SinAlmacen,
     Documento("lista", <<DatoGuardado(IdUsuario(1), DIAG_USUARIO)>>)}

IdsEntrada == {sistema_lento, no_conecta_wifi, IdUsuario(1)}

Entradas == SeqsHasta(IdsEntrada, MaxEntrada)

----------------------------------------------------------------------------
(* State and actions                                                       *)

\* almacen: the document the user store held when the call was made
Llamada(motor, hechos_activos_ids, sintomas_activos, almacen) ==
    [motor |-> motor, hechos_activos_ids |-> hechos_activos_ids,
     sintomas_activos |-> sintomas_activos, almacen |-> almacen]

SinLlamada == Llamada("ninguno", <<>>, {}, SinAlmacen)
SinResultado == [tipo |-> "ninguno", diagnostico |-> <<>>, sintomas_pasados_ids |-> <<>>]

Anterior(ll, r, t) == [llamada |-> ll, resultado |-> r, rama |-> t.rama]

SinAnterior == Anterior(SinLlamada, SinResultado, SinTraza)

\* The launcher of main.py: pc is where main() is, motor_seleccionado and
\* opcion are its locals, servidor tells whether uvicorn.run was reached,
\* excepcion is the exception that left main(), if any
Lanzador(pc, motor_seleccionado, opcion, servidor, excepcion) == [pc |-> pc, motor_seleccionado |-> motor_seleccionado, opcion |-> opcion, servidor |-> servidor, excepcion |-> excepcion]

\* main() not called yet: no engine selected, no option read, no server
SinLanzar == Lanzador("sin_llamar", "ninguno", <<>>, FALSE, "ninguna")

InitCon(fuentes, almacenes) ==
    /\ estado = "importando"
    /\ fuente \in fuentes
    /\ error_carga = SinError
    /\ BASE_CONOCIMIENTO = SinBase
    /\ HECHOS_POR_ID = <<>>
    /\ conocimiento_usuario \in almacenes
    /\ llamada = SinLlamada
    /\ resultado = SinResultado
    /\ traza = SinTraza
    /\ anterior = SinAnterior
    /\ lanzador = SinLanzar

\* The import of motor/logica.py (lines 94-96): the base is loaded once; a
\* failure raises SystemExit and nothing runs after it
Importar ==
    /\ estado = "importando"
    /\ LET c == cargar_base_conocimiento(fuente)
       IN  /\ error_carga' = c.error
           /\ BASE_CONOCIMIENTO' = c.base
           /\ IF c.error.tipo = "ninguno"
              THEN /\ estado' = "listo"
                   /\ HECHOS_POR_ID' = IndiceHechos(c.base.hechos)
              ELSE /\ estado' = "SystemExit"
                   /\ HECHOS_POR_ID' = HECHOS_POR_ID
    /\ UNCHANGED <<lanzador, fuente, conocimiento_usuario, llamada, resultado, traza,
                   anterior>>

\* A call of motor_de_inferencia(hechos_activos_ids) of logica.py.  recordar:
\* whether the call before it is kept in the history variable
Inferir(hechos_activos_ids, recordar) ==
    /\ estado = "listo"
    /\ LET m == motor_de_inferencia(hechos_activos_ids, BASE_CONOCIMIENTO,
                                    HECHOS_POR_ID, conocimiento_usuario)
           o == objetos_tras_inferencia(BASE_CONOCIMIENTO, HECHOS_POR_ID,
                                        conocimiento_usuario)
       IN  /\ resultado' = m.resultado
           /\ traza' = m.traza
           /\ BASE_CONOCIMIENTO' = o.BASE_CONOCIMIENTO
           /\ HECHOS_POR_ID' = o.HECHOS_POR_ID
    /\ llamada' = Llamada("logica", hechos_activos_ids, {}, conocimiento_usuario)
    /\ anterior' = IF recordar /\ llamada.motor = "logica"
                   THEN Anterior(llamada, resultado, traza)
                   ELSE SinAnterior
    /\ UNCHANGED <<lanzador, estado, fuente, error_carga, conocimiento_usuario>>

InferirReglas == \E ids \in Entradas : Inferir(ids, FALSE)

\* A call of motor_de_inferencia(sintomas) of logica_pesos.py
InferirPesos ==
    \E sintomas_activos \in SUBSET Rango(FLAGS) :
        /\ estado = "listo"
        /\ LET m == motor_de_inferencia_pesos(sintomas_activos)
           IN  /\ resultado' = [tipo |-> "str", diagnostico |-> <<m.texto>>,
                                sintomas_pasados_ids |-> <<>>]
               /\ traza' = [SinTraza EXCEPT !.rama = m.rama]
        /\ llamada' = Llamada("pesos", <<>>, sintomas_activos, conocimiento_usuario)
        /\ anterior' = SinAnterior
        /\ UNCHANGED <<lanzador, estado, fuente, error_carga, BASE_CONOCIMIENTO,
                       HECHOS_POR_ID, conocimiento_usuario>>

\* cargar_json of api_server.py: [] when the file is missing or does not parse
cargar_json(doc) ==
    IF doc.tipo \in {"ausente", "json_invalido"}
    THEN Documento("lista", <<>>)
    ELSE doc

\* POST /guardar-nuevo-dato: the record is appended to the stored list and the
\* list is written back; append on a document that is no list raises and the
\* file stays as it was.  The id comes from the clock: a new one each time.
GuardarNuevoDato ==
    /\ estado = "listo"
    /\ LET datos_usuario == cargar_json(conocimiento_usuario)
           nuevo_dato == DatoGuardado(IdUsuario(Len(datos_usuario.elementos) + 1),
                                      DIAG_USUARIO)
       IN  /\ Len(datos_usuario.elementos) < MaxUsuario
           /\ conocimiento_usuario' =
                 IF datos_usuario.tipo = "lista"
                 THEN Documento("lista", Append(datos_usuario.elementos, nuevo_dato))
                 ELSE conocimiento_usuario
    /\ UNCHANGED <<lanzador, estado, fuente, error_carga, BASE_CONOCIMIENTO,
                   HECHOS_POR_ID, llamada, resultado, traza, anterior>>

Init == InitCon(Fuentes, AlmacenesLista)

Next == Importar \/ InferirReglas

Spec == Init /\ [][Next]_vars

----------------------------------------------------------------------------
(* SpecAlmacen: the user store changes between the calls                   *)

FuentesAlmacen ==
    {BaseConocimiento("ok", HechosCompletos, <<>>,
                      <<SUG_UNICA_LENTO, SUG_UNICA_WIFI>>),
     BaseConocimiento("ok", HechosCompletos,
                      <<Regla(TextoRegla(1), <<sistema_lento, <<NOT>> \o no_conecta_wifi>>),
                        Regla(TextoRegla(2), <<no_conecta_wifi>>)>>,
                      <<>>)}

\* A stored record that lacks one key, or whose id is a number
DatoSinClave(clave) ==
    DatoUsuario("dict", {"id", "categoria", "sintoma", "diagnostico"} \ {clave},
                IdUsuario(1), TRUE, "hardware", <<"sintoma del usuario">>,
                DIAG_USUARIO)

DatoIdNumero ==
    DatoUsuario("dict", {"id", "categoria", "sintoma", "diagnostico"},
                IdUsuario(1), FALSE, "hardware", <<"sintoma del usuario">>,
                DIAG_USUARIO)

\* An element that is no JSON object
DatoOtro == DatoUsuario("otro", {}, <<>>, FALSE, "", <<>>, <<>>)

AlmacenesTodos ==
    {SinAlmacen,
     Documento("json_invalido", <<>>),
     Documento("escalar", <<>>),
     Documento("objeto", <<DatoOtro>>),
     Documento("lista", <<>>),
     Documento("lista", <<DatoOtro>>),
     Documento("lista", <<DatoIdNumero>>)}
    \cup {Documento("lista", <<DatoSinClave(c)>>) :
             c \in {"id", "categoria", "sintoma", "diagnostico"}}

EntradasAlmacen ==
    SeqsHasta({sistema_lento, no_conecta_wifi, IdUsuario(1)}, MaxEntrada)

InferirRecordando == \E ids \in EntradasAlmacen : Inferir(ids, TRUE)

InitAlmacen == InitCon(FuentesAlmacen, AlmacenesTodos)

NextAlmacen == Importar \/ InferirRecordando \/ GuardarNuevoDato

SpecAlmacen == InitAlmacen /\ [][NextAlmacen]_vars

----------------------------------------------------------------------------
(* SpecMotores: the engine over the fixed flags (the desktop application)  *)

\* A call of motor_de_inferencia(sintomas) of logica_reglas.py
InferirCascada ==
    \E sintomas \in SUBSET Rango(FLAGS) :
        /\ estado = "listo"
        /\ LET m == motor_de_inferencia_reglas(sintomas)
           IN  /\ resultado' = [tipo |-> "str", diagnostico |-> <<m.texto>>,
                                sintomas_pasados_ids |-> <<>>]
               /\ traza' = [SinTraza EXCEPT !.rama = m.rama]
        /\ llamada' = Llamada("reglas", <<>>, sintomas, conocimiento_usuario)
        /\ anterior' = SinAnterior
        /\ UNCHANGED <<lanzador, estado, fuente, error_carga, BASE_CONOCIMIENTO,
                       HECHOS_POR_ID, conocimiento_usuario>>

InitMotores == InitCon(FuentesAlmacen, {SinAlmacen})

NextMotores == Importar \/ InferirPesos \/ InferirCascada

SpecMotores == InitMotores /\ [][NextMotores]_vars

----------------------------------------------------------------------------
(* SpecSesion: a session of the web application: symptom pages, diagnoses, *)
(* records saved, and the store file edited from outside                   *)

\* GET /sintomas/{categoria}: get_hechos_por_categoria(categoria)
GetHechosPorCategoria ==
    \E categoria \in Rango(CATEGORIAS) :
        /\ estado = "listo"
        /\ resultado' = get_hechos_por_categoria(categoria, BASE_CONOCIMIENTO,
                                                 conocimiento_usuario)
        /\ traza' = SinTraza
        /\ llamada' = Llamada("get_hechos_por_categoria", <<>>, {},
                              conocimiento_usuario)
        /\ anterior' = SinAnterior
        /\ UNCHANGED <<lanzador, estado, fuente, error_carga, BASE_CONOCIMIENTO,
                       HECHOS_POR_ID, conocimiento_usuario>>

\* GET /: get_categorias()
GetCategorias ==
    /\ estado = "listo"
    /\ resultado' = get_categorias(BASE_CONOCIMIENTO)
    /\ traza' = SinTraza
    /\ llamada' = Llamada("get_categorias", <<>>, {}, conocimiento_usuario)
    /\ anterior' = SinAnterior
    /\ UNCHANGED <<lanzador, estado, fuente, error_carga, BASE_CONOCIMIENTO,
                   HECHOS_POR_ID, conocimiento_usuario>>

\* conocimiento_usuario.json edited from outside the program: one record of
\* the stored list is deleted
QuitarDato ==
    /\ estado = "listo"
    /\ conocimiento_usuario.tipo = "lista"
    /\ \E k \in DOMAIN conocimiento_usuario.elementos :
          conocimiento_usuario' =
              Documento("lista",
                        [i \in 1..(Len(conocimiento_usuario.elementos) - 1) |->
                            IF i < k
                            THEN conocimiento_usuario.elementos[i]
                            ELSE conocimiento_usuario.elementos[i + 1]])
    /\ UNCHANGED <<lanzador, estado, fuente, error_carga, BASE_CONOCIMIENTO,
                   HECHOS_POR_ID, llamada, resultado, traza, anterior>>

\* The store when the session starts: missing, not a list, or a list whose
\* record lacks a key
AlmacenesSesion ==
    {SinAlmacen,
     Documento("escalar", <<>>),
     Documento("objeto", <<DatoOtro>>),
     Documento("lista", <<DatoSinClave("sintoma")>>),
     Documento("lista", <<DatoSinClave("diagnostico")>>)}

EntradasSesion == SeqsHasta({sistema_lento, IdUsuario(1)}, MaxEntrada)

InferirSesion == \E ids \in EntradasSesion : Inferir(ids, TRUE)

InitSesion == InitCon(FuentesAlmacen, AlmacenesSesion)

NextSesion ==
    \/ Importar
    \/ InferirSesion
    \/ GetHechosPorCategoria
    \/ GetCategorias
    \/ GuardarNuevoDato
    \/ QuitarDato

SpecSesion == InitSesion /\ [][NextSesion]_vars

----------------------------------------------------------------------------
(* SpecCarga: the load of documents of every kind, and what is served      *)
(* after it                                                                *)

\* A fact list in which two facts have the same id
HechosRepetidos ==
    HechosCompletos \o
    << Hecho(sistema_lento, <<"El equipo va lento">>, "hardware") >>

FuentesCarga ==
    FuentesIlegibles \cup FuentesAlmacen \cup
    {BaseConocimiento("ok", HechosRepetidos, <<Regla(TextoRegla(1), <<sistema_lento>>)>>, <<>>),
     BaseConocimiento("ok", HechosSinWifi, <<Regla(TextoRegla(1), <<no_conecta_wifi>>)>>, <<>>),
     BaseConocimiento("ok", HechosSinWifi, <<>>, <<SUG_UNICA_LENTO, SUG_UNICA_WIFI>>)}

InitCarga == InitCon(FuentesCarga, AlmacenesLista)

NextCarga ==
    \/ Importar
    \/ InferirReglas
    \/ GetHechosPorCategoria
    \/ GetCategorias

SpecCarga == InitCarga /\ [][NextCarga]_vars

----------------------------------------------------------------------------
(* SpecExtension: stores of well-formed records, whatever their ids, and   *)
(* bases that may declare a fact with the id of a record                   *)

DIAG_OTRO == <<"otro diagnostico del usuario">>

\* A record id that begins with the negation marker
ID_CON_NOT == <<NOT>> \o IdUsuario(2)

DatosExtension ==
    {DatoGuardado(id, d) :
        id \in {IdUsuario(1), IdUsuario(2), ID_CON_NOT},
        d \in {DIAG_USUARIO, DIAG_OTRO}}

AlmacenesExtension ==
    {Documento("lista", e) : e \in SeqsHasta(DatosExtension, MaxUsuario)}

FuentesExtension ==
    FuentesAlmacen \cup
    {BaseConocimiento("ok",
                      HechosCompletos \o
                      << Hecho(IdUsuario(1), <<"Sintoma de la base">>, "hardware") >>,
                      <<Regla(TextoRegla(1), <<IdUsuario(1)>>)>>,
                      <<>>)}

EntradasExtension ==
    SeqsHasta({sistema_lento, IdUsuario(1), IdUsuario(2), ID_CON_NOT},
              MaxEntrada)

InferirExtension == \E ids \in EntradasExtension : Inferir(ids, FALSE)

InitExtension == InitCon(FuentesExtension, AlmacenesExtension)

NextExtension == Importar \/ InferirExtension \/ GuardarNuevoDato

SpecExtension == InitExtension /\ [][NextExtension]_vars

----------------------------------------------------------------------------
(* SpecLanzador: main.py, the console launcher and the desktop application *)

\* What the user types at a prompt, as a sequence of characters
LineasDeConsola ==
    {<<"1">>, <<"2">>, <<"3">>, <<"4">>, <<"5">>, <<>>, <<" ", "4", " ">>}

\* str.strip(): leading and trailing blanks removed
RECURSIVE strip(_)
strip(linea) ==
    IF linea = <<>> THEN <<>>
    ELSE IF Head(linea) = " " THEN strip(Tail(linea))
    ELSE IF linea[Len(linea)] = " " THEN strip(SubSeq(linea, 1, Len(linea) - 1))
    ELSE linea

\* seleccionar_motor, one turn of its loop: the module it returns, or
\* "ninguno" when the loop goes round again
seleccionar_motor(linea) ==
    LET opcion == strip(linea)
    IN  IF opcion = <<"1">> THEN "reglas"
        ELSE IF opcion = <<"2">> THEN "pesos"
        ELSE "ninguno"

\* iniciar_api called with the given positional arguments: the function
\* declares no parameter, so a call with any argument raises TypeError before
\* its body runs; with none, uvicorn.run serves until it is stopped
iniciar_api(argumentos) ==
    IF Len(argumentos) # 0
    THEN [excepcion |-> "TypeError", servidor |-> FALSE]
    ELSE [excepcion |-> "ninguna", servidor |-> TRUE]

\* python main.py: the imports of lines 1-3 are done (motor/logica.py is
\* imported by api_server.py), main() is called and asks for the engine
Main ==
    /\ estado = "listo"
    /\ lanzador.pc = "sin_llamar"
    /\ lanzador' = [lanzador EXCEPT !.pc = "seleccionar_motor"]
    /\ UNCHANGED <<estado, fuente, error_carga, BASE_CONOCIMIENTO,
                   HECHOS_POR_ID, conocimiento_usuario, llamada, resultado,
                   traza, anterior>>

\* One turn of the loop of seleccionar_motor (called at line 23 or line 46)
SeleccionarMotor ==
    \E linea \in LineasDeConsola :
        /\ lanzador.pc = "seleccionar_motor"
        /\ LET motor == seleccionar_motor(linea)
           IN  lanzador' =
                  IF motor = "ninguno"
                  THEN lanzador
                  ELSE [lanzador EXCEPT !.pc = "menu",
                                        !.motor_seleccionado = motor]
        /\ UNCHANGED <<estado, fuente, error_carga, BASE_CONOCIMIENTO,
                       HECHOS_POR_ID, conocimiento_usuario, llamada, resultado,
                       traza, anterior>>

\* One turn of the loop of main (lines 25-51).  Option 2 calls
\* iniciar_api(motor_seleccionado) and catches KeyboardInterrupt only
MenuLanzador ==
    \E linea \in LineasDeConsola :
        /\ lanzador.pc = "menu"
        /\ LET opcion == strip(linea)
               api == iniciar_api(<<lanzador.motor_seleccionado>>)
           IN  lanzador' =
                  IF opcion = <<"1">>
                  THEN [lanzador EXCEPT !.opcion = opcion, !.pc = "gui"]
                  ELSE IF opcion = <<"2">>
                  THEN IF api.excepcion \in {"ninguna", "KeyboardInterrupt"}
                       THEN [lanzador EXCEPT !.opcion = opcion,
                                             !.servidor = api.servidor]
                       ELSE [lanzador EXCEPT !.opcion = opcion,
                                             !.pc = "excepcion",
                                             !.servidor = api.servidor,
                                             !.excepcion = api.excepcion]
                  ELSE IF opcion = <<"3">>
                  THEN [lanzador EXCEPT !.opcion = opcion,
                                        !.pc = "seleccionar_motor"]
                  ELSE IF opcion = <<"4">>
                  THEN [lanzador EXCEPT !.opcion = opcion, !.pc = "terminado"]
                  ELSE [lanzador EXCEPT !.opcion = opcion]
        /\ UNCHANGED <<estado, fuente, error_carga, BASE_CONOCIMIENTO,
                       HECHOS_POR_ID, conocimiento_usuario, llamada, resultado,
                       traza, anterior>>

\* The button of the desktop application: _realizar_diagnostico calls
\* motor_de_inferencia of the module main() handed to iniciar_aplicacion
Diagnosticar ==
    /\ lanzador.pc = "gui"
    /\ IF lanzador.motor_seleccionado = "reglas"
       THEN InferirCascada
       ELSE InferirPesos

\* The window is closed: ventana.mainloop() returns, and iniciar_aplicacion
\* with it
CerrarVentana ==
    /\ lanzador.pc = "gui"
    /\ lanzador' = [lanzador EXCEPT !.pc = "menu"]
    /\ UNCHANGED <<estado, fuente, error_carga, BASE_CONOCIMIENTO,
                   HECHOS_POR_ID, conocimiento_usuario, llamada, resultado,
                   traza, anterior>>

InitLanzador == InitCon(FuentesAlmacen, {SinAlmacen})

NextLanzador ==
    \/ Importar
    \/ Main
    \/ SeleccionarMotor
    \/ MenuLanzador
    \/ Diagnosticar
    \/ CerrarVentana

SpecLanzador == InitLanzador /\ [][NextLanzador]_vars

----------------------------------------------------------------------------
(* SpecML: calls whose ids are the ones the heuristic looks for            *)

MaxActivosML == 3

\* The ids named in lines 196-208, and one id of the user store
OrdenML ==
    << sistema_lento, no_conecta_wifi, wifi_conectado_sin_internet,
       programas_cierran, mensajes_error_frecuentes, pantalla_azul,
       imagen_congelada_o_artefactos, ruidos_hdd, sobrecalentamiento,
       publicidad_excesiva, IdUsuario(1) >>

EntradasML ==
    { SelectSeq(OrdenML, LAMBDA id : id \in S) :
        S \in {T \in SUBSET Rango(OrdenML) : Cardinality(T) <= MaxActivosML} }

FuentesML ==
    FuentesAlmacen \cup {BaseConocimiento("ok", HechosCompletos, <<>>, <<>>)}

InferirML == \E ids \in EntradasML : Inferir(ids, FALSE)

InitML == InitCon(FuentesML, AlmacenesLista)

NextML == Importar \/ InferirML

SpecML == InitML /\ [][NextML]_vars

----------------------------------------------------------------------------
(* What the claims speak of, stated from the rules and the active set and  *)
(* not from the locals of the scan                                         *)

EsLogica == llamada.motor = "logica"

\* The active set of the last call
Activos == Rango(llamada.hechos_activos_ids)

\* The scan of the rules ran in the last call
HuboBusqueda == EsLogica /\ traza.rama \in {"regla", "sintoma_unico", "ml"}

PosicionesPositivas(regla) ==
    {i \in DOMAIN regla.condiciones :
        ~(Len(regla.condiciones[i]) > 0 /\ regla.condiciones[i][1] = NOT)}

LiteralesPositivos(regla) ==
    {regla.condiciones[i] : i \in PosicionesPositivas(regla)}

\* Base ids of the negated literals: the literal without its NOT: markers
BasesNegadas(regla) ==
    {SelectSeq(regla.condiciones[i], LAMBDA t : t # NOT) :
        i \in DOMAIN regla.condiciones \ PosicionesPositivas(regla)}

Coincide(regla, activos) ==
    /\ LiteralesPositivos(regla) \subseteq activos
    /\ BasesNegadas(regla) \cap activos = {}

positiveCount(regla) == Cardinality(PosicionesPositivas(regla))
specificity(regla) == Len(regla.condiciones)

\* (positiveCount, specificity) of r is below that of s, lexicographically
MenorPrioridad(r, s) ==
    \/ positiveCount(r) < positiveCount(s)
    \/ positiveCount(r) = positiveCount(s) /\ specificity(r) < specificity(s)

\* The best candidate of the last call passes the acceptance gate
PasaCompuerta ==
    /\ traza.mejor_regla_encontrada # 0
    /\ LET regla == traza.todas_las_reglas[traza.mejor_regla_encontrada]
       IN  positiveCount(regla) = Cardinality(Activos \ BasesNegadas(regla))

\* The rule whose conclusion the last call returned
ReglaDevuelta == traza.todas_las_reglas[traza.mejor_regla_encontrada]

----------------------------------------------------------------------------
(* C1 .. C4, C6, C7: the rule matcher and the fallback chain, under Spec   *)

\* C1: whenever infer returns a rule's conclusion, every active id is one of
\* that rule's positive literals or the base id of one of its negated
\* literals: a rule that leaves a reported symptom uncovered is never accepted.
C1_ReglaAceptadaCubreActivos ==
    (EsLogica /\ traza.rama = "regla") =>
        \A id \in Activos :
            \/ id \in LiteralesPositivos(ReglaDevuelta)
            \/ id \in BasesNegadas(ReglaDevuelta)

\* C2: for a non-empty active set, infer returns the best candidate's
\* conclusion if and only if there is a best candidate and its positiveCount
\* equals |active - negatedIds|; otherwise the diagnosis comes from the
\* fallback chain (single-symptom suggestion or heuristic), also when some
\* other matching rule would pass the equality.
C2_CompuertaDeAceptacion ==
    (EsLogica /\ Activos # {}) =>
        /\ (traza.rama = "regla") <=> PasaCompuerta
        /\ PasaCompuerta =>
              resultado = Devuelve(ReglaDevuelta.diagnostico,
                                   llamada.hechos_activos_ids)
        /\ ~PasaCompuerta => traza.rama \in {"sintoma_unico", "ml"}

\* C2 witness: the best candidate fails the gate, another matching rule would
\* pass it, and the fallback chain answered
C2_Testigo ==
    /\ EsLogica /\ Activos # {}
    /\ traza.mejor_regla_encontrada # 0
    /\ ~PasaCompuerta
    /\ \E i \in DOMAIN traza.todas_las_reglas :
          /\ Coincide(traza.todas_las_reglas[i], Activos)
          /\ positiveCount(traza.todas_las_reglas[i]) =
                Cardinality(Activos \ BasesNegadas(traza.todas_las_reglas[i]))
    /\ traza.rama \in {"sintoma_unico", "ml"}

\* The only base rule is [A, NOT:B]
SoloReglaANoB(A, B) ==
    /\ Len(BASE_CONOCIMIENTO.reglas) = 1
    /\ BASE_CONOCIMIENTO.reglas[1].condiciones = <<A, <<NOT>> \o B>>

\* C3: a rule matches the active set iff every positive literal is in it and
\* no negated literal's base id is; with [A, NOT:B] as the only rule of the
\* knowledge base, infer on {A} returns its conclusion and infer on {A,B} or
\* on {B} does not.
C3_CoincidenciaDeRegla ==
    HuboBusqueda =>
        /\ DOMAIN traza.cumplidas = DOMAIN traza.todas_las_reglas
        /\ \A i \in DOMAIN traza.todas_las_reglas :
              traza.cumplidas[i] <=> Coincide(traza.todas_las_reglas[i], Activos)
        /\ \A A \in IdsReglas : \A B \in IdsReglas \ {A} :
              SoloReglaANoB(A, B) =>
                 /\ Activos = {A} =>
                       /\ traza.rama = "regla"
                       /\ traza.mejor_regla_encontrada = 1
                       /\ resultado.diagnostico =
                             BASE_CONOCIMIENTO.reglas[1].diagnostico
                 /\ Activos \in {{A, B}, {B}} =>
                       /\ ~traza.cumplidas[1]
                       /\ resultado.diagnostico #
                             BASE_CONOCIMIENTO.reglas[1].diagnostico

\* C3 witness: [A, NOT:B] is the only base rule, the active set is {A} and the
\* rule's conclusion was returned
C3_Testigo ==
    /\ HuboBusqueda
    /\ SoloReglaANoB(sistema_lento, no_conecta_wifi)
    /\ Activos = {sistema_lento}
    /\ resultado.diagnostico = BASE_CONOCIMIENTO.reglas[1].diagnostico

\* C4: the rules are scanned in definition order, base rules first and user
\* rules after them; the best candidate is the matching rule that is maximal
\* in (positiveCount, specificity), and the earliest of those that are equal
\* in both; with no matching rule there is no candidate.
C4_MejorCandidato ==
    HuboBusqueda =>
        LET todas == traza.todas_las_reglas
            m == traza.mejor_regla_encontrada
            coinciden == {i \in DOMAIN todas : Coincide(todas[i], Activos)}
        IN  /\ Len(todas) >= Len(BASE_CONOCIMIENTO.reglas)
            /\ SubSeq(todas, 1, Len(BASE_CONOCIMIENTO.reglas)) =
                  BASE_CONOCIMIENTO.reglas
            /\ \A i \in (Len(BASE_CONOCIMIENTO.reglas) + 1)..Len(todas) :
                  todas[i].diagnostico[Len(todas[i].diagnostico)] = SUFIJO_USUARIO
            /\ (coinciden = {}) <=> (m = 0)
            /\ m # 0 =>
                  /\ m \in coinciden
                  /\ \A j \in coinciden : ~MenorPrioridad(todas[m], todas[j])
                  /\ \A j \in coinciden : j < m => MenorPrioridad(todas[j], todas[m])

\* C4 witness: two matching rules equal in positiveCount and specificity, and
\* the earlier one is the candidate
C4_Testigo ==
    /\ HuboBusqueda
    /\ \E i, j \in DOMAIN traza.todas_las_reglas :
          /\ i < j
          /\ traza.mejor_regla_encontrada = i
          /\ Coincide(traza.todas_las_reglas[j], Activos)
          /\ positiveCount(traza.todas_las_reglas[i]) =
                positiveCount(traza.todas_las_reglas[j])
          /\ specificity(traza.todas_las_reglas[i]) =
                specificity(traza.todas_las_reglas[j])

\* The single-symptom suggestion of id X, as the knowledge base holds it
TieneSugerencia(X) ==
    \E i \in DOMAIN BASE_CONOCIMIENTO.diagnosticos_sintoma_unico :
        BASE_CONOCIMIENTO.diagnosticos_sintoma_unico[i].id = X

\* C6: if the active set is exactly {X}, no rule is accepted and
\* singleSymptomSuggestions maps X to T, infer returns exactly T, and the
\* heuristic advisor is not invoked.
C6_SugerenciaSintomaUnico ==
    \A X \in IdsEntrada :
        (EsLogica /\ Activos = {X} /\ traza.rama # "regla" /\ TieneSugerencia(X)) =>
            /\ traza.rama = "sintoma_unico"
            /\ \E i \in DOMAIN BASE_CONOCIMIENTO.diagnosticos_sintoma_unico :
                  /\ BASE_CONOCIMIENTO.diagnosticos_sintoma_unico[i].id = X
                  /\ resultado =
                        Devuelve(BASE_CONOCIMIENTO.diagnosticos_sintoma_unico[i].texto,
                                 llamada.hechos_activos_ids)

\* C6 witness: one active id, given twice, no rule accepted, and the
\* suggestion of that id was returned
C6_Testigo ==
    /\ EsLogica
    /\ llamada.hechos_activos_ids = <<sistema_lento, sistema_lento>>
    /\ traza.mejor_regla_encontrada # 0
    /\ traza.rama = "sintoma_unico"
    /\ resultado.diagnostico = SUG_UNICA_LENTO.texto

\* C7: the chain is rule matcher, then single-symptom advisor, then heuristic
\* advisor: a rule that passes the gate wins over the suggestion of the same
\* id; the heuristic answers iff no rule was accepted and the active set has
\* more than one member or its only member has no suggestion; with two or
\* more active ids the suggestions are not consulted.
C7_OrdenDeLaCadena ==
    (EsLogica /\ Activos # {}) =>
        /\ PasaCompuerta => traza.rama = "regla"
        /\ (traza.rama = "ml") <=>
              /\ ~PasaCompuerta
              /\ \/ Cardinality(Activos) > 1
                 \/ \E X \in Activos : Activos = {X} /\ ~TieneSugerencia(X)
        /\ (traza.rama = "ml") =>
              /\ resultado.tipo = "dict"
              /\ resultado.diagnostico[1] = PREAMBULO_ML
        /\ Cardinality(Activos) > 1 => traza.rama # "sintoma_unico"

\* C7 witness: the only active id has a suggestion and a rule that passes the
\* gate, and the rule's conclusion was returned
C7_Testigo ==
    /\ EsLogica
    /\ \E X \in Activos : Activos = {X} /\ TieneSugerencia(X)
    /\ PasaCompuerta
    /\ traza.rama = "regla"
    /\ resultado.diagnostico = ReglaDevuelta.diagnostico

----------------------------------------------------------------------------
(* C5, C9, C10: empty input, determinism, order and repetitions, under     *)
(* SpecAlmacen                                                             *)

\* C5: infer with an empty id sequence returns the fixed prompt message and
\* nothing else, whatever the knowledge base and the user store hold; the
\* weighted engine with no flag set returns its prompt without scoring.
C5_EntradaVacia ==
    /\ (EsLogica /\ llamada.hechos_activos_ids = <<>>) =>
          /\ traza.rama = "vacia"
          /\ resultado = Devuelve(<<MSG_SIN_SINTOMAS>>, <<>>)
    /\ (llamada.motor = "pesos" /\ llamada.sintomas_activos = {}) =>
          /\ traza.rama = "vacia"
          /\ resultado.diagnostico = <<MSG_PESOS_SIN_SINTOMAS>>

\* Two consecutive calls of infer
DosLlamadas == EsLogica /\ anterior.llamada.motor = "logica"

MismosActivos == Rango(anterior.llamada.hechos_activos_ids) = Activos

MismoAlmacen == anterior.llamada.almacen = llamada.almacen

MismoDiagnostico ==
    /\ resultado.tipo = anterior.resultado.tipo
    /\ resultado.diagnostico = anterior.resultado.diagnostico
    /\ Rango(resultado.sintomas_pasados_ids) =
          Rango(anterior.resultado.sintomas_pasados_ids)

\* C9 as stated: two calls of infer with the same active set and the same
\* knowledge base return the same output, whatever happens between them,
\* additions to the user store included.
C9_MismaSalidaSiempre == (DosLlamadas /\ MismosActivos) => MismoDiagnostico

\* C9 as amended: two calls of infer with the same active set, the same
\* knowledge base and the same content of the user store return the same
\* output (the same dict when the id sequences are the same).
C9_MismaSalidaConMismoAlmacen ==
    (DosLlamadas /\ MismosActivos /\ MismoAlmacen) =>
        /\ MismoDiagnostico
        /\ anterior.llamada.hechos_activos_ids = llamada.hechos_activos_ids =>
              resultado = anterior.resultado

\* C9 witness: the same ids twice over a store that holds a record, which the
\* second call read again and answered from as the first did
C9_Testigo ==
    /\ DosLlamadas /\ MismoAlmacen
    /\ anterior.llamada.hechos_activos_ids = llamada.hechos_activos_ids
    /\ Len(llamada.almacen.elementos) > 0
    /\ traza.rama = "regla"
    /\ traza.mejor_regla_encontrada > Len(BASE_CONOCIMIENTO.reglas)
    /\ resultado = anterior.resultado

\* C10: two input sequences with the same ids, in any order and with any
\* repetitions, get the same diagnosis text from the same knowledge base and
\* store content, on every path.
C10_SoloElConjunto ==
    (DosLlamadas /\ MismosActivos /\ MismoAlmacen) =>
        /\ traza.rama = anterior.rama
        /\ resultado.tipo = anterior.resultado.tipo
        /\ resultado.diagnostico = anterior.resultado.diagnostico

\* C10 witness: the same two ids in the two orders, answered by the heuristic
C10_Testigo ==
    /\ DosLlamadas /\ MismoAlmacen
    /\ anterior.llamada.hechos_activos_ids = <<sistema_lento, no_conecta_wifi>>
    /\ llamada.hechos_activos_ids = <<no_conecta_wifi, sistema_lento>>
    /\ traza.rama = "ml"
    /\ resultado.diagnostico = anterior.resultado.diagnostico

----------------------------------------------------------------------------
(* C8: the heuristic, under SpecML                                         *)

\* The six membership predicates in the order of the text, the three
\* combinations first
PredicadosML(S) ==
    << /\ sistema_lento \in S
       /\ {no_conecta_wifi, wifi_conectado_sin_internet} \cap S # {},
       /\ sistema_lento \in S
       /\ {programas_cierran, mensajes_error_frecuentes, pantalla_azul} \cap S # {},
       /\ imagen_congelada_o_artefactos \in S
       /\ {sistema_lento, programas_cierran} \cap S # {},
       /\ sistema_lento \in S
       /\ S \cap (Rango(OrdenML) \ {sistema_lento, IdUsuario(1)}) = {},
       /\ {no_conecta_wifi, wifi_conectado_sin_internet} \cap S # {}
       /\ sistema_lento \notin S,
       /\ imagen_congelada_o_artefactos \in S
       /\ sistema_lento \notin S
       /\ programas_cierran \notin S >>

FragmentosML ==
    << SUG_LENTO_RED, SUG_LENTO_SOFTWARE, SUG_IMAGEN_COMBINADA,
       SUG_LENTO, SUG_RED, SUG_IMAGEN >>

\* The fragment of the first predicate that holds, the default when none does
FragmentoEsperado(S) ==
    LET P == PredicadosML(S)
        cumplen == {i \in 1..Len(P) : P[i]}
    IN  IF cumplen = {}
        THEN SUG_DEFECTO
        ELSE FragmentosML[CHOOSE i \in cumplen : \A j \in cumplen : i <= j]

\* C8: the heuristic returns the fixed preamble, the fragment of the first
\* predicate, in the fixed order, that the active set satisfies (the default
\* fragment when it satisfies none), and the fixed closing prompt.
C8_PrimerPredicadoGana ==
    (EsLogica /\ traza.rama = "ml") =>
        /\ resultado.tipo = "dict"
        /\ resultado.diagnostico =
              <<PREAMBULO_ML, FragmentoEsperado(Activos), CIERRE_ML>>

\* C8 witness: a wifi id with imagen_congelada_o_artefactos satisfies the
\* fifth and the sixth predicate and gets the fragment of the fifth
C8_Testigo ==
    /\ EsLogica /\ traza.rama = "ml"
    /\ Activos = {no_conecta_wifi, imagen_congelada_o_artefactos}
    /\ PredicadosML(Activos)[5] /\ PredicadosML(Activos)[6]
    /\ resultado.diagnostico = <<PREAMBULO_ML, SUG_RED, CIERRE_ML>>

----------------------------------------------------------------------------
(* C11: no exception at inference time, under SpecAlmacen                  *)

\* C11: once the knowledge base has loaded, every call of infer returns a
\* diagnosis string and never raises, whatever the input ids and whatever the
\* user store holds (missing, unparseable, records with missing fields, or a
\* document that is not a list of records).
C11_NuncaLanza ==
    EsLogica =>
        /\ resultado.tipo = "dict"
        /\ traza.rama \in {"vacia", "regla", "sintoma_unico", "ml"}

----------------------------------------------------------------------------
(* C12: the loaded base is not changed by the calls, under SpecSesion      *)

\* The records of a stored document that give a fact, and that give a rule
DatosConHecho(doc) ==
    IF doc.tipo \in {"lista", "objeto"}
    THEN {i \in DOMAIN doc.elementos :
             /\ doc.elementos[i].forma = "dict"
             /\ doc.elementos[i].id_es_str
             /\ {"id", "sintoma", "categoria"} \subseteq doc.elementos[i].claves}
    ELSE {}

DatosConRegla(doc) ==
    IF doc.tipo \in {"lista", "objeto"}
    THEN {i \in DOMAIN doc.elementos :
             /\ doc.elementos[i].forma = "dict"
             /\ doc.elementos[i].id_es_str
             /\ {"id", "diagnostico"} \subseteq doc.elementos[i].claves}
    ELSE {}

----------------------------------------------------------------------------
(* C13: the user store is read again on every call, under SpecSesion       *)

\* The records of the stored list with that id that give a rule
DatosDe(doc, id) == {i \in DatosConRegla(doc) : doc.elementos[i].id = id}

\* C13: every call of infer works on the store as it is when the call is
\* made: a record that is in the store is used by the very next call (its
\* rule answers for its id), and a record that is no longer in the store has
\* no effect on the call.
C13_AlmacenReleido ==
    (EsLogica /\ resultado.tipo = "dict") =>
        /\ traza.datos_usuario.elementos =
              (IF llamada.almacen.tipo \in {"ausente", "json_invalido"}
               THEN <<>>
               ELSE llamada.almacen.elementos)
        /\ \A id \in {IdUsuario(1)} :
              Activos = {id} =>
                  IF DatosDe(llamada.almacen, id) # {}
                  THEN /\ traza.rama = "regla"
                       /\ \E i \in DatosDe(llamada.almacen, id) :
                             resultado.diagnostico =
                                 llamada.almacen.elementos[i].diagnostico
                                     \o <<SUFIJO_USUARIO>>
                  ELSE traza.rama = "ml"

\* C13 witness: the id of a record gets the heuristic text, the record is
\* saved, and the next call with the same id gets the record's diagnosis
C13_Testigo ==
    /\ DosLlamadas
    /\ anterior.llamada.hechos_activos_ids = <<IdUsuario(1)>>
    /\ llamada.hechos_activos_ids = <<IdUsuario(1)>>
    /\ DatosDe(anterior.llamada.almacen, IdUsuario(1)) = {}
    /\ anterior.rama = "ml"
    /\ DatosDe(llamada.almacen, IdUsuario(1)) # {}
    /\ traza.rama = "regla"
    /\ resultado.diagnostico = DIAG_USUARIO \o <<SUFIJO_USUARIO>>

\* The other half of the case of C13: the record answered a call, was deleted
\* from the store, and the next call with the same id gets the heuristic text
C13_TestigoQuitado ==
    /\ DosLlamadas
    /\ anterior.llamada.hechos_activos_ids = <<IdUsuario(1)>>
    /\ llamada.hechos_activos_ids = <<IdUsuario(1)>>
    /\ DatosDe(anterior.llamada.almacen, IdUsuario(1)) # {}
    /\ anterior.rama = "regla"
    /\ DatosDe(llamada.almacen, IdUsuario(1)) = {}
    /\ traza.rama = "ml"

----------------------------------------------------------------------------
(* C14: dangling references at load, under Spec                            *)

IdsDeclarados == {fuente.hechos[i].id : i \in DOMAIN fuente.hechos}

\* <<i, j>>: condition j of rule i names, NOT: removed, no declared fact
CondicionesColgadas ==
    {p \in (DOMAIN fuente.reglas) \X (1..MaxCondiciones) :
        /\ p[2] \in DOMAIN fuente.reglas[p[1]].condiciones
        /\ SelectSeq(fuente.reglas[p[1]].condiciones[p[2]],
                     LAMBDA t : t # "NOT:") \notin IdsDeclarados}

ClavesColgadas ==
    {k \in DOMAIN fuente.diagnosticos_sintoma_unico :
        fuente.diagnosticos_sintoma_unico[k].id \notin IdsDeclarados}

\* The first pair: rules in definition order, then conditions in list order
PrimeraColgada ==
    CHOOSE p \in CondicionesColgadas :
        \A q \in CondicionesColgadas :
            p[1] < q[1] \/ (p[1] = q[1] /\ p[2] <= q[2])

\* C14: loading a document in which a condition's base id or a key of the
\* single-symptom suggestions is no declared fact fails with a reference
\* error; the error is that of the first violation, rules in definition order
\* and conditions in list order before any suggestion key, and it names the
\* rule's index and the condition's base id.
C14_ErrorDeReferencia ==
    (estado # "importando" /\ fuente.tipo = "ok") =>
        /\ (CondicionesColgadas # {} \/ ClavesColgadas # {}) <=>
              (estado = "SystemExit" /\ error_carga.tipo = "ValueError")
        /\ (CondicionesColgadas = {} /\ ClavesColgadas = {}) => estado = "listo"
        /\ CondicionesColgadas # {} =>
              /\ error_carga.regla = PrimeraColgada[1]
              /\ error_carga.id =
                    SelectSeq(fuente.reglas[PrimeraColgada[1]]
                                  .condiciones[PrimeraColgada[2]],
                              LAMBDA t : t # "NOT:")
        /\ (CondicionesColgadas = {} /\ ClavesColgadas # {}) =>
              /\ error_carga.regla = 0
              /\ error_carga.id =
                    fuente.diagnosticos_sintoma_unico[
                        CHOOSE k \in ClavesColgadas :
                            \A q \in ClavesColgadas : k <= q].id

\* C14 witness: the second condition of the second rule is the first
\* violation, a suggestion key is another, and the load reports the former
C14_Testigo ==
    /\ estado = "SystemExit"
    /\ fuente.tipo = "ok"
    /\ CondicionesColgadas # {} /\ ClavesColgadas # {}
    /\ PrimeraColgada = <<2, 2>>
    /\ error_carga = [tipo |-> "ValueError", regla |-> 2, id |-> no_conecta_wifi]

----------------------------------------------------------------------------
(* C15, C16: what a load accepts and what a failed load leaves, under      *)
(* SpecCarga                                                               *)

\* C15: in every knowledge base that was constructed the fact ids are unique
\* (a source in which two facts share an id fails to load), and HECHOS_POR_ID
\* has exactly one entry per listed fact.
C15_IdsDeHechosUnicos ==
    estado = "listo" =>
        /\ \A i \in DOMAIN BASE_CONOCIMIENTO.hechos :
              \A j \in DOMAIN BASE_CONOCIMIENTO.hechos :
                  BASE_CONOCIMIENTO.hechos[i].id = BASE_CONOCIMIENTO.hechos[j].id
                      => i = j
        /\ Cardinality(DOMAIN HECHOS_POR_ID) = Len(BASE_CONOCIMIENTO.hechos)

\* The source is one the load must refuse: missing, unreadable, malformed,
\* against the schema, or with a dangling reference
FuenteRechazable ==
    \/ fuente.tipo \in {"ausente", "ilegible", "json_invalido", "esquema_invalido"}
    \/ /\ fuente.tipo = "ok"
       /\ (CondicionesColgadas # {} \/ ClavesColgadas # {})

\* C16: every load failure ends the process at import, before any call: when
\* the source is missing, unreadable, malformed, against the schema or has a
\* dangling reference no knowledge base is returned, not even a partial one,
\* and no call is ever served; a call is served only by a base that loaded
\* whole and valid.
C16_FalloDeCargaFatal ==
    /\ (estado # "importando" /\ FuenteRechazable) =>
          /\ estado = "SystemExit"
          /\ error_carga.tipo # "ninguno"
          /\ BASE_CONOCIMIENTO = SinBase
          /\ HECHOS_POR_ID = <<>>
    /\ llamada.motor # "ninguno" =>
          /\ estado = "listo"
          /\ ~FuenteRechazable
          /\ error_carga = SinError
          /\ BASE_CONOCIMIENTO = fuente

\* C16 witness: the load of a document with a dangling reference has ended
\* the process, with no base and no call served
C16_Testigo ==
    /\ estado = "SystemExit"
    /\ fuente.tipo = "ok" /\ CondicionesColgadas # {}
    /\ error_carga.tipo = "ValueError"
    /\ BASE_CONOCIMIENTO = SinBase
    /\ llamada = SinLlamada

----------------------------------------------------------------------------
(* C17: the engine of weights, under SpecMotores                           *)

EsPesos == llamada.motor = "pesos"

\* The weight of a flag in a candidate's map, 0 when the map lacks it
Peso(i, flag) ==
    IF \E par \in DIAGNOSTICOS[i].pesos : par[1] = flag
    THEN (CHOOSE par \in DIAGNOSTICOS[i].pesos : par[1] = flag)[2]
    ELSE 0

\* The sum of the weights of the first n flags that are active
RECURSIVE SumaHasta(_, _, _)
SumaHasta(i, n, activos) ==
    IF n = 0 THEN 0
    ELSE SumaHasta(i, n - 1, activos)
         + (IF FLAGS[n] \in activos THEN Peso(i, FLAGS[n]) ELSE 0)

Score(i, activos) == SumaHasta(i, Len(FLAGS), activos)

ScoreMaximo(activos) ==
    CHOOSE m \in {Score(i, activos) : i \in DOMAIN DIAGNOSTICOS} :
        \A i \in DOMAIN DIAGNOSTICOS : Score(i, activos) <= m

\* The first candidate, in definition order, that attains the maximum
PrimerMaximo(activos) ==
    CHOOSE i \in DOMAIN DIAGNOSTICOS :
        /\ Score(i, activos) = ScoreMaximo(activos)
        /\ \A j \in DOMAIN DIAGNOSTICOS :
              Score(j, activos) = ScoreMaximo(activos) => i <= j

\* C17: for every non-empty set of active flags the engine returns the
\* description of the first candidate, in definition order, whose sum of
\* weights over the active flags is the maximum, when that maximum is at
\* least 10, and the insufficient-information message when it is below 10.
C17_PrimerMaximoGana ==
    (EsPesos /\ llamada.sintomas_activos # {}) =>
        IF ScoreMaximo(llamada.sintomas_activos) >= 10
        THEN /\ traza.rama = "diagnostico"
             /\ resultado.diagnostico =
                   <<DIAGNOSTICOS[PrimerMaximo(llamada.sintomas_activos)].descripcion>>
        ELSE /\ traza.rama = "insuficiente"
             /\ resultado.diagnostico = <<MSG_PESOS_INSUFICIENTE>>

\* C17 witness: pc_no_enciende with pantalla_sin_video: the second and the
\* fifth candidate tie at 15 and the second one is returned
C17_Testigo ==
    /\ EsPesos
    /\ llamada.sintomas_activos = {"pc_no_enciende", "pantalla_sin_video"}
    /\ Score(2, llamada.sintomas_activos) = 15
    /\ Score(5, llamada.sintomas_activos) = 15
    /\ ScoreMaximo(llamada.sintomas_activos) = 15
    /\ resultado.diagnostico = <<DIAGNOSTICOS[2].descripcion>>

----------------------------------------------------------------------------
(* C18: the engine of weights with no flag, under SpecMotores              *)

\* C18 as stated: with no active flag, every score being 0 and below the
\* threshold, the engine of weights returns the insufficient-information
\* message.
C18_SinFlagsInsuficiente ==
    (EsPesos /\ llamada.sintomas_activos = {}) =>
        resultado.diagnostico = <<MSG_PESOS_INSUFICIENTE>>

\* C18 as amended: with no active flag the engine of weights returns its
\* prompt-for-input message, before any score is compared with the threshold
\* (every score would be 0); the insufficient-information message is not
\* returned.
C18_SinFlagsPidePrimero ==
    (EsPesos /\ llamada.sintomas_activos = {}) =>
        /\ \A i \in DOMAIN DIAGNOSTICOS : Score(i, llamada.sintomas_activos) = 0
        /\ traza.rama = "vacia"
        /\ resultado.diagnostico = <<MSG_PESOS_SIN_SINTOMAS>>
        /\ resultado.diagnostico # <<MSG_PESOS_INSUFICIENTE>>

\* C18 witness: a call with no flag set, answered with the prompt
C18_Testigo ==
    /\ EsPesos
    /\ llamada.sintomas_activos = {}
    /\ ScoreMaximo(llamada.sintomas_activos) = 0
    /\ resultado.diagnostico = <<MSG_PESOS_SIN_SINTOMAS>>

----------------------------------------------------------------------------
(* C19: the cascade, under SpecMotores                                     *)

EsCascada == llamada.motor = "reglas"

\* The six predicates over the flags, in the order of the rules
PredicadosCascada(F) ==
    << "pc_no_enciende" \in F /\ "hace_pitidos_al_arrancar" \in F,
       "pc_no_enciende" \in F /\ ~("hace_pitidos_al_arrancar" \in F),
       ~("pc_no_enciende" \in F) /\ "pantalla_sin_video" \in F,
       "sistema_operativo_lento" \in F /\ "ruidos_extranos_hdd" \in F,
       "sistema_operativo_lento" \in F /\ "mensajes_de_error_os" \in F,
       /\ "periferico_no_funciona" \in F
       /\ {"pc_no_enciende", "pantalla_sin_video", "sistema_operativo_lento"}
              \cap F = {} >>

ConclusionesCascada ==
    << CONCLUSION_RAM_VIDEO, CONCLUSION_FUENTE, CONCLUSION_VIDEO,
       CONCLUSION_DISCO, CONCLUSION_SO, CONCLUSION_PERIFERICO >>

ConclusionEsperada(F) ==
    LET P == PredicadosCascada(F)
        ciertos == {i \in 1..Len(P) : P[i]}
    IN  IF ciertos = {}
        THEN CONCLUSION_DEFECTO
        ELSE ConclusionesCascada[CHOOSE i \in ciertos : \A j \in ciertos : i <= j]

\* C19: for every assignment of the seven flags the cascade returns the
\* conclusion of the first of the rules 1 to 6 whose predicate is true, even
\* when a later predicate is true as well, and the default undetermined
\* conclusion when none is, no flag set included.
C19_PrimeraReglaGana ==
    EsCascada =>
        resultado.diagnostico = <<ConclusionEsperada(llamada.sintomas_activos)>>

\* C19 witness: slow system with disk noises and errors of the operating
\* system: the predicates of rules 4 and 5 are true and rule 4 answers
C19_Testigo ==
    /\ EsCascada
    /\ llamada.sintomas_activos =
          {"sistema_operativo_lento", "ruidos_extranos_hdd", "mensajes_de_error_os"}
    /\ PredicadosCascada(llamada.sintomas_activos)[4]
    /\ PredicadosCascada(llamada.sintomas_activos)[5]
    /\ resultado.diagnostico = <<CONCLUSION_DISCO>>

----------------------------------------------------------------------------
(* C20: the id of a stored record as the only symptom, under SpecExtension *)

\* The well-formed records of the store read by the last call
DatosBienFormados ==
    IF llamada.almacen.tipo = "lista"
    THEN {i \in DOMAIN llamada.almacen.elementos :
             /\ llamada.almacen.elementos[i].forma = "dict"
             /\ llamada.almacen.elementos[i].id_es_str
             /\ {"id", "categoria", "sintoma", "diagnostico"}
                    \subseteq llamada.almacen.elementos[i].claves}
    ELSE {}

RespondeElDato(i) ==
    resultado.diagnostico =
        llamada.almacen.elementos[i].diagnostico \o <<SUFIJO_USUARIO>>

----------------------------------------------------------------------------
(* C21: the launcher, under SpecLanzador                                   *)

\* C21: the loop of main ends only through option 4: options 1, 2, 3 and any
\* other input return control to the menu (no exception leaves main), and
\* option 2 starts the web server through iniciar_api.
C21_SoloSalirTermina ==
    /\ lanzador.excepcion = "ninguna"
    /\ lanzador.pc \in {"terminado", "excepcion"} =>
           (lanzador.pc = "terminado" /\ lanzador.opcion = <<"4">>)
    /\ lanzador.opcion = <<"2">> => lanzador.servidor

----------------------------------------------------------------------------
(* C22: the rules made from the store and the merged index, under          *)
(* SpecAlmacen                                                             *)

\* The rules crear_reglas_usuario added in the last call: those that follow
\* the rules of the base in todas_las_reglas
ReglasDeUsuario ==
    {i \in DOMAIN traza.todas_las_reglas : i > Len(BASE_CONOCIMIENTO.reglas)}

\* C22: in the working copy of a call, every condition id of every rule made
\* from the user store is the id of a fact of the merged index
\* (hechos_por_id_completo), whatever the store holds.
C22_ReglasDeUsuarioReferidas ==
    EsLogica =>
        \A i \in ReglasDeUsuario :
            \A c \in DOMAIN traza.todas_las_reglas[i].condiciones :
                replace_NOT(traza.todas_las_reglas[i].condiciones[c])
                    \in DOMAIN traza.hechos_por_id_completo

----------------------------------------------------------------------------
(* C23: the shipped weight table against the threshold, under SpecMotores  *)

\* C23: with the shipped table and the threshold 10, for every non-empty set
\* of the seven flags the maximum score is at least 10 and the engine returns
\* the description of one of the six candidates: neither the
\* insufficient-information message nor the safeguard message is returned.
C23_SiempreUnCandidato ==
    (EsPesos /\ llamada.sintomas_activos # {}) =>
        /\ ScoreMaximo(llamada.sintomas_activos) >= UMBRAL_MINIMO
        /\ traza.rama \notin {"insuficiente", "inesperado"}
        /\ resultado.diagnostico \notin
               {<<MSG_PESOS_INSUFICIENTE>>, <<MSG_PESOS_INESPERADO>>}
        /\ \E i \in DOMAIN DIAGNOSTICOS :
               resultado.diagnostico = <<DIAGNOSTICOS[i].descripcion>>

\* C23 witness: sistema_operativo_lento alone: the maximum is exactly the
\* threshold and a candidate's description is returned
C23_Testigo ==
    /\ EsPesos
    /\ llamada.sintomas_activos = {"sistema_operativo_lento"}
    /\ ScoreMaximo(llamada.sintomas_activos) = UMBRAL_MINIMO
    /\ traza.rama = "diagnostico"
    /\ \E i \in DOMAIN DIAGNOSTICOS :
           resultado.diagnostico = <<DIAGNOSTICOS[i].descripcion>>

----------------------------------------------------------------------------
(* C24: the negated literals of the best rule and the gate, under Spec     *)

\* The base ids of the negated literals of the best rule of the last call
NegadasDeLaMejor ==
    LET regla == traza.todas_las_reglas[traza.mejor_regla_encontrada]
    IN  {replace_NOT(regla.condiciones[j]) :
            j \in {k \in DOMAIN regla.condiciones :
                      startswith_NOT(regla.condiciones[k])}}

HayMejorRegla == EsLogica /\ traza.mejor_regla_encontrada # 0

\* C24: for the best rule of a call no base id of a negated literal is
\* active, so the active set less those ids is the active set, and the rule
\* is accepted exactly when its count of positive conditions met equals the
\* size of the active set.
C24_PuertaSinNegadas ==
    HayMejorRegla =>
        /\ NegadasDeLaMejor \cap Activos = {}
        /\ Activos \ NegadasDeLaMejor = Activos
        /\ (traza.rama = "regla") <=>
               (traza.max_condiciones_positivas_coincidentes
                    = Cardinality(Activos))

\* C24 witness: the best rule has a negated literal and is accepted with
\* every active id among its positive conditions
C24_Testigo ==
    /\ HayMejorRegla
    /\ NegadasDeLaMejor # {}
    /\ Activos # {}
    /\ traza.rama = "regla"
    /\ traza.max_condiciones_positivas_coincidentes = Cardinality(Activos)

\* C24 witness: the best rule has a negated literal and is refused, an active
\* id being none of its conditions
C24_TestigoRechazada ==
    /\ HayMejorRegla
    /\ NegadasDeLaMejor # {}
    /\ traza.rama # "regla"
    /\ traza.max_condiciones_positivas_coincidentes < Cardinality(Activos)

=============================================================================
